---- MODULE Spec2Model ----
(***************************************************************************)
(* A state-machine model of the ZeroTier VL1 core: the Topology registry   *)
(* (peer map, root list, cached-peer loader, periodic garbage collection)  *)
(* and the VL1 ingress pipeline (onRemotePacket, HELLO handler, verb       *)
(* dispatch).  Each action is one critical section or one collaborator     *)
(* call of the C++ code, so that interleavings of concurrent calls are the *)
(* interleavings of these actions.                                         *)
(***************************************************************************)
EXTENDS Integers, Sequences, FiniteSets, TLC

(***************************************************************************)
(* Bounds of the model.                                                    *)
(***************************************************************************)
NumAddr == 10         \* ZeroTier addresses 1..NumAddr (0 is the reserved address)
ExtraObj == 2         \* Peer objects that can be alive beyond one per address
MaxTicks == 1         \* how many times the clock advances
MaxRuns == 1          \* how many times doPeriodicTasks and trustStoreChanged are each called

NULL == 0             \* the null SharedPtr

(***************************************************************************)
(* Program constants (Constants.hpp is not part of the excerpt; the values *)
(* are those the specification gives).  The model counts time in seconds,  *)
(* the code in milliseconds: every timeout is a whole number of seconds,   *)
(* and the 30 days of ZT_PEER_GLOBAL_TIMEOUT in milliseconds exceed the    *)
(* integers of the model checker.                                          *)
(***************************************************************************)
ZT_PEER_ALIVE_TIMEOUT == 600
ZT_PEER_GLOBAL_TIMEOUT == 2592000
ZT_PATH_KEEPALIVE_PERIOD == 20

Addr == 1..NumAddr
Key == 1..(2 * NumAddr)
ObjId == 1..(NumAddr + ExtraObj)
Threads == {1, 2}

\* The addresses the modelled remote nodes and trust store use.
SrcAddr == {1, 2}

(***************************************************************************)
(* Identity: (address, public key).  The address is a hash of the key, so  *)
(* it is a many-to-one function of the key; an identity is locally valid   *)
(* when its declared address is the one its key hashes to.                 *)
(***************************************************************************)
Identity == [addr : Addr, key : Key]
NoId == [addr |-> 0, key |-> 0]
AddressOf(k) == ((k - 1) % NumAddr) + 1
\* A validation that accepts every identity.
locallyValidate_Any(id) == TRUE
locallyValidate(id) == AddressOf(id.key) = id.addr
\* The second key that hashes to address a (an address collision).
CollidingKey(a) == a + NumAddr
\* The identities the environment presents: for each address its owner's
\* identity; for address 1 also a second valid identity with a colliding key
\* and an identity that declares the address without owning it.
OwnerId(a) == [addr |-> a, key |-> a]
EnvIdentity == {OwnerId(a) : a \in SrcAddr}
                 \cup {[addr |-> 1, key |-> CollidingKey(1)], [addr |-> 1, key |-> 2]}

\* The order of Map< Identity, ... > iteration (Identity::operator<).
IdentityLess(a, b) == \/ a.addr < b.addr
                      \/ a.addr = b.addr /\ a.key < b.key

RECURSIVE SortedIds(_)
SortedIds(S) ==
    IF S = {} THEN <<>>
    ELSE LET m == CHOOSE x \in S : \A y \in S \ {x} : IdentityLess(x, y)
         IN <<m>> \o SortedIds(S \ {m})

Range(s) == {s[i] : i \in 1..Len(s)}

VARIABLES
    now,         \* the clock the host samples into cc.ticks
    m_peers,     \* Topology::m_peers : Address -> SharedPtr<Peer> (NULL: no entry)
    peerObjs,    \* the heap of Peer objects
    m_roots,     \* Topology::m_roots
    m_bestRoot,  \* Topology::m_bestRoot
    store,       \* the persistent store's cached peers (ZT_STATE_OBJECT_PEER)
    th,          \* the threads calling into Topology / VL1
    per,         \* the thread running Topology::doPeriodicTasks
    tsc,         \* the thread running Topology::trustStoreChanged
    calls,       \* how many calls of doPeriodicTasks and of trustStoreChanged were made
    gcSnap,      \* history: the peer map as it was when a sequential GC run began
    dg,          \* the datagrams of this run: content, progress and what became of each
    whoisQueue,  \* VL1::m_whoisQueue
    expect,      \* the Expect table: packet IDs whose replies are awaited
    sent,        \* history: the packets handed to Peer::send
    m_paths,     \* Topology::m_paths : Path::Key -> SharedPtr<Path> (NULL: no entry)
    pathObjs,    \* the heap of Path objects
    pcall,       \* the threads calling Topology::path
    pgc,         \* the path pass of Topology::doPeriodicTasks
    m_inputPacketAssembler,  \* VL1's Defragmenter, with the pieces still on the wire
    locks        \* the mutexes of Topology and VL1, and the calls that take them

vars == <<now, m_peers, peerObjs, m_roots, m_bestRoot, store, th, per, tsc, calls, gcSnap,
          dg, whoisQueue, expect, sent, m_paths, pathObjs, pcall, pgc,
          m_inputPacketAssembler, locks>>

\* The state of VL1 outside Topology.
vl1 == <<dg, whoisQueue, expect, sent, m_inputPacketAssembler, locks>>

\* The paths of Topology.
pathVars == <<m_paths, pathObjs, pcall, pgc>>

\* What no operation of Topology on peers and roots touches.
aux == <<gcSnap, vl1, pathVars>>

(***************************************************************************)
(* Peer objects.                                                           *)
(***************************************************************************)
DeadPeer == [id |-> NoId, lastReceive |-> 0, latency |-> 0 - 1, dedup |-> <<>>, vProto |-> 0,
            vVersion |-> <<0, 0, 0>>]

\* new Peer() followed by Peer::init(identity): nothing received yet, latency unknown.
NewPeer(id) == [id |-> id, lastReceive |-> 0, latency |-> 0 - 1, dedup |-> <<>>, vProto |-> 0,
            vVersion |-> <<0, 0, 0>>]

NoData == [id |-> NoId, ts |-> 0]

\* Every Peer object some SharedPtr refers to.
Referenced ==
    {m_peers[a] : a \in Addr} \cup Range(m_roots) \cup {m_bestRoot}
      \cup {th[t].peer : t \in Threads} \cup {th[t].cand : t \in Threads}
      \cup {th[t].hpeer : t \in Threads}
      \cup {per.toSave} \cup Range(tsc.newRoots) \cup {tsc.root}

FreeObjs == ObjId \ Referenced
\* The object a "new Peer()" yields.
Fresh == CHOOSE o \in FreeObjs : \A p \in FreeObjs : o <= p

\* A Peer whose last reference is dropped is deleted.
Collect(objs, refs) == [o \in ObjId |-> IF o \in refs THEN objs[o] ELSE DeadPeer]

(***************************************************************************)
(* Root ranking.                                                           *)
(***************************************************************************)
\* p_RootRankingComparisonOperator::operator()(a, b) on two Peer records.
p_RootRankingComparisonOperator(a, b) ==
    LET alr == a.lastReceive \div (ZT_PATH_KEEPALIVE_PERIOD \div 2)
        blr == b.lastReceive \div (ZT_PATH_KEEPALIVE_PERIOD \div 2)
    IN IF alr < blr THEN TRUE
       ELSE IF blr = alr
            THEN (IF b.latency < 0 THEN TRUE ELSE b.latency < a.latency)
            ELSE FALSE

\* Whether the comparator is a strict weak ordering on the records in R, which
\* std::sort requires; otherwise the sort has undefined behaviour.
IsStrictWeakOrder(R) ==
    LET lt(x, y) == p_RootRankingComparisonOperator(x, y)
        eq(x, y) == ~lt(x, y) /\ ~lt(y, x)
    IN /\ \A x \in R : ~lt(x, x)
       /\ \A x, y, z \in R : lt(x, y) /\ lt(y, z) => lt(x, z)
       /\ \A x, y, z \in R : eq(x, y) /\ eq(y, z) => eq(x, z)

Orderings(s) ==
    LET n == Len(s)
        Bij == {f \in [1..n -> 1..n] : \A i, j \in 1..n : f[i] = f[j] => i = j}
    IN {[i \in 1..n |-> s[f[i]]] : f \in Bij}

\* What std::sort(m_roots.begin(), m_roots.end(), comparator) may leave in
\* m_roots: an ordering no later element of which compares less than an earlier
\* one; any ordering at all when the comparator breaks std::sort's precondition.
SortOutcomes(s, objs) ==
    IF IsStrictWeakOrder({objs[o] : o \in Range(s)})
    THEN {p \in Orderings(s) :
            \A i, j \in 1..Len(s) :
               i < j => ~p_RootRankingComparisonOperator(objs[p[j]], objs[p[i]])}
    ELSE Orderings(s)

\* Topology::m_rankRoots: the root lists it may leave (m_bestRoot is the front).
m_rankRoots(s, objs) == IF s = <<>> THEN {<<>>} ELSE SortOutcomes(s, objs)
BestOf(s) == IF s = <<>> THEN NULL ELSE s[1]

\* Topology::root()
root == m_bestRoot

(***************************************************************************)
(* The cached-peer loader and Topology::add.                               *)
(***************************************************************************)
\* Topology::m_loadCached: the identity of the Peer it yields, NoId when it
\* yields none (no data, or data older than ZT_PEER_GLOBAL_TIMEOUT).
m_loadCached(a, ticks) ==
    IF store[a] # NoData /\ (ticks - store[a].ts) < ZT_PEER_GLOBAL_TIMEOUT
    THEN store[a].id ELSE NoId

\* Topology::add without its test for an existing entry: the given Peer always
\* takes the map slot.
TopologyAdd_Overwriting(cand, id, ticks) ==
    <<cand, [m_peers EXCEPT ![id.addr] = cand], [peerObjs EXCEPT ![cand] = NewPeer(id)]>>

\* Topology::add(peer) for a Peer object cand holding identity id, inside the
\* write lock: <<the handle returned, the new map, the new heap>>.
TopologyAdd(cand, id, ticks) ==
    LET a == id.addr
        objs == [peerObjs EXCEPT ![cand] = NewPeer(id)]
    IN IF m_peers[a] # NULL THEN <<m_peers[a], m_peers, objs>>
       ELSE IF m_loadCached(a, ticks) # NoId
            THEN \* the cached Peer is unmarshalled straight into the map slot
                 LET c == CHOOSE o \in FreeObjs \ {cand} :
                              \A p \in FreeObjs \ {cand} : o <= p
                 IN <<c, [m_peers EXCEPT ![a] = c],
                      [objs EXCEPT ![c] = NewPeer(m_loadCached(a, ticks))]>>
            ELSE <<cand, [m_peers EXCEPT ![a] = cand], objs>>

\* pass 1 with the comparison >= in place of >.
IsStale_AtTimeout(p, ticks) == (ticks - p.lastReceive) >= ZT_PEER_ALIVE_TIMEOUT

\* The locked part of Topology::m_peerFromCached for the loaded Peer cand:
\* <<the handle returned, the new map>>.
m_peerFromCached(a, cand) ==
    IF m_peers[a] # NULL THEN <<m_peers[a], m_peers>>
    ELSE <<cand, [m_peers EXCEPT ![a] = cand]>>

(***************************************************************************)
(* Callers of Topology: what VL1 does with it on behalf of one datagram.   *)
(* A thread looks a peer up (peer(cc, address, true)), creates and adds    *)
(* one when there is none (as m_HELLO does), calls Peer::received on the   *)
(* handle it holds, and drops the handle when the call returns.            *)
(***************************************************************************)
IdleThread == [pc |-> "idle", addr |-> 0, peer |-> NULL, cand |-> NULL, ticks |-> 0,
               via |-> "none", d |-> 0, hpeer |-> NULL, nested |-> FALSE,
               toSend |-> {}, step |-> 0, pid |-> 0]

\* Topology::peer(cc, a, true), up to the insertion of a cached Peer.
CallPeer(t, a) ==
    /\ th[t].pc = "idle"
    /\ IF m_peers[a] # NULL
       THEN /\ th' = [th EXCEPT ![t] = [@ EXCEPT !.pc = "hold", !.addr = a,
                                          !.peer = m_peers[a], !.ticks = now]]
            /\ peerObjs' = peerObjs
       ELSE IF m_loadCached(a, now) # NoId
       THEN /\ FreeObjs # {}
            /\ th' = [th EXCEPT ![t] = [@ EXCEPT !.pc = "cached", !.addr = a,
                                          !.cand = Fresh, !.ticks = now]]
            /\ peerObjs' = [peerObjs EXCEPT ![Fresh] = NewPeer(m_loadCached(a, now))]
       ELSE /\ th' = [th EXCEPT ![t] = [@ EXCEPT !.pc = "miss", !.addr = a, !.ticks = now]]
            /\ peerObjs' = peerObjs
    /\ UNCHANGED <<now, m_peers, m_roots, m_bestRoot, store, per, tsc, calls, aux>>

\* The write-locked part of Topology::m_peerFromCached.
InsertCached(t) ==
    /\ th[t].pc = "cached"
    /\ LET r == m_peerFromCached(th[t].addr, th[t].cand)
       IN /\ m_peers' = r[2]
          /\ th' = [th EXCEPT ![t] = [@ EXCEPT !.pc = "hold", !.peer = r[1], !.cand = NULL]]
    /\ UNCHANGED <<now, m_roots, m_bestRoot, store, per, tsc, calls, aux>>
    /\ peerObjs' = Collect(peerObjs, Referenced')

\* new Peer(), Peer::init(id) and Topology::add, as m_HELLO does for an
\* identity it has validated and for which peer() found nothing.
CallAdd(t, id, initOk) ==
    /\ th[t].pc = "miss"
    /\ id.addr = th[t].addr
    /\ locallyValidate(id)
    /\ UNCHANGED <<now, m_roots, m_bestRoot, store, per, tsc, calls, aux>>
    /\ IF initOk
       THEN /\ Cardinality(FreeObjs) >= 2
            /\ LET r == TopologyAdd(Fresh, id, th[t].ticks)
               IN /\ m_peers' = r[2]
                  /\ th' = [th EXCEPT ![t] = [@ EXCEPT !.pc = "hold", !.peer = r[1], !.via = "add"]]
                  /\ peerObjs' = Collect(r[3], Referenced')
       ELSE /\ th' = [th EXCEPT ![t] = IdleThread]
            /\ UNCHANGED <<m_peers, peerObjs>>

\* Peer::received on the handle the thread holds, the last thing a packet
\* handler does before it returns.
CallReceived(t) ==
    /\ th[t].pc = "hold"
    /\ th' = [th EXCEPT ![t] = IdleThread]
    /\ UNCHANGED <<now, m_peers, m_roots, m_bestRoot, store, per, tsc, calls, aux>>
    /\ peerObjs' = Collect([peerObjs EXCEPT ![th[t].peer].lastReceive = th[t].ticks],
                           Referenced')

\* The call returns: its SharedPtr< Peer > goes out of scope.
Return(t) ==
    /\ th[t].pc \in {"hold", "miss"}
    /\ th' = [th EXCEPT ![t] = IdleThread]
    /\ UNCHANGED <<now, m_peers, m_roots, m_bestRoot, store, per, tsc, calls, aux>>
    /\ peerObjs' = Collect(peerObjs, Referenced')

(***************************************************************************)
(* Topology::doPeriodicTasks.                                              *)
(***************************************************************************)
IdlePer == [pc |-> "idle", ticks |-> 0, rootLookup |-> {}, toDelete |-> <<>>,
            toSave |-> NULL, saves |-> <<>>]

RECURSIVE AscendingSeq(_)
AscendingSeq(S) ==
    IF S = {} THEN <<>>
    ELSE LET m == CHOOSE x \in S : \A y \in S : x <= y
         IN <<m>> \o AscendingSeq(S \ {m})

\* The test of pass 1 on one map entry.
IsStale(p, ticks) == (ticks - p.lastReceive) > ZT_PEER_ALIVE_TIMEOUT
IsCandidate(o, ticks, rootLookup) == IsStale(peerObjs[o], ticks) /\ o \notin rootLookup

\* History: the peer map, the root list and the store as a call finds them.
Snapshot(peers, objs, roots, st) ==
    [a \in Addr |->
        [obj |-> peers[a],
         lastReceive |-> IF peers[a] # NULL THEN objs[peers[a]].lastReceive ELSE 0,
         isRoot |-> peers[a] # NULL /\ peers[a] \in Range(roots),
         stored |-> st[a]]]

\* Lock m_roots_l, rank the roots, snapshot the root pointers.
PerStart ==
    /\ per.pc = "idle"
    /\ calls.per < MaxRuns
    /\ calls' = [calls EXCEPT !.per = @ + 1]
    /\ \E r \in m_rankRoots(m_roots, peerObjs) :
          /\ m_roots' = r
          /\ m_bestRoot' = BestOf(r)
          /\ per' = [IdlePer EXCEPT !.pc = "collect", !.ticks = now, !.rootLookup = Range(r)]
    /\ UNCHANGED <<now, m_peers, store, th, tsc, vl1, pathVars>>
    /\ gcSnap' = IF gcSnap = <<>> THEN gcSnap
                 ELSE Snapshot(m_peers, peerObjs, m_roots, store)
    /\ peerObjs' = Collect(peerObjs, Referenced')

\* Pass 1, under the read lock: collect the addresses to delete.
PerCollect ==
    /\ per.pc = "collect"
    /\ LET del == {a \in Addr : m_peers[a] # NULL
                                  /\ IsCandidate(m_peers[a], per.ticks, per.rootLookup)}
       IN per' = [per EXCEPT !.toDelete = AscendingSeq(del),
                             !.pc = IF del = {} THEN "done" ELSE "erase"]
    /\ UNCHANGED <<now, m_peers, peerObjs, m_roots, m_bestRoot, store, th, tsc, calls, aux>>

\* Pass 2 with the save inside the write lock's scope: the erased peer is
\* written to the store before the lock is released.
PerErase_SavingLocked ==
    /\ per.pc = "erase"
    /\ LET a == Head(per.toDelete)
           next == IF Tail(per.toDelete) = <<>> THEN "done" ELSE "erase"
       IN /\ m_peers' = [m_peers EXCEPT ![a] = NULL]
          /\ store' = IF m_peers[a] # NULL
                      THEN [store EXCEPT ![a] = [id |-> peerObjs[m_peers[a]].id, ts |-> per.ticks]]
                      ELSE store
          /\ per' = [per EXCEPT !.toDelete = Tail(@), !.pc = next,
                                !.saves = IF m_peers[a] # NULL THEN Append(@, a) ELSE @]
    /\ UNCHANGED <<now, m_roots, m_bestRoot, th, tsc, calls, aux>>
    /\ peerObjs' = Collect(peerObjs, Referenced')

\* Pass 2, under the write lock: erase one collected address.
PerErase ==
    /\ per.pc = "erase"
    /\ LET a == Head(per.toDelete)
       IN IF m_peers[a] # NULL
          THEN /\ m_peers' = [m_peers EXCEPT ![a] = NULL]
               /\ per' = [per EXCEPT !.toSave = m_peers[a], !.pc = "save"]
          ELSE /\ m_peers' = m_peers
               /\ per' = [per EXCEPT !.toDelete = Tail(@),
                                     !.pc = IF Tail(per.toDelete) = <<>> THEN "done" ELSE "erase"]
    /\ UNCHANGED <<now, peerObjs, m_roots, m_bestRoot, store, th, tsc, calls, aux>>

\* Peer::save of the erased peer, outside the lock: the peer is written to the
\* persistent store with the current time.
PerSave ==
    /\ per.pc = "save"
    /\ LET a == Head(per.toDelete)
       IN /\ store' = [store EXCEPT ![a] = [id |-> peerObjs[per.toSave].id, ts |-> per.ticks]]
          /\ per' = [per EXCEPT !.toSave = NULL, !.toDelete = Tail(@),
                                !.saves = Append(@, a),
                                !.pc = IF Tail(per.toDelete) = <<>> THEN "done" ELSE "erase"]
    /\ UNCHANGED <<now, m_peers, m_roots, m_bestRoot, th, tsc, calls, aux>>
    /\ peerObjs' = Collect(peerObjs, Referenced')

\* doPeriodicTasks has returned.
PerReturn ==
    /\ per.pc = "done"
    /\ per' = IdlePer
    /\ UNCHANGED <<now, m_peers, peerObjs, m_roots, m_bestRoot, store, th, tsc, calls, aux>>

(***************************************************************************)
(* Topology::trustStoreChanged.                                            *)
(***************************************************************************)
IdleTsc == [pc |-> "idle", reported |-> {}, todo |-> <<>>, newRoots |-> <<>>, root |-> NULL]

\* The sets of root identities the trust store may report.
RootSets == SUBSET {OwnerId(a) : a \in SrcAddr}

\* roots(m_ctx.ts->roots())
TscStart(R) ==
    /\ tsc.pc = "idle"
    /\ calls.tsc < MaxRuns
    /\ calls' = [calls EXCEPT !.tsc = @ + 1]
    /\ tsc' = [IdleTsc EXCEPT !.pc = IF R = {} THEN "swap" ELSE "lookup",
                              !.reported = R, !.todo = SortedIds(R)]
    /\ UNCHANGED <<now, m_peers, peerObjs, m_roots, m_bestRoot, store, th, per, aux>>

\* What follows one root's handling: the next root, or the swap.
TscNext(rest) == IF rest = <<>> THEN "swap" ELSE "lookup"

\* this->peer(cc, r->first.address(), true) for the next reported root.
TscLookup ==
    /\ tsc.pc = "lookup"
    /\ LET a == Head(tsc.todo).addr
       IN IF m_peers[a] # NULL
          THEN /\ tsc' = [tsc EXCEPT !.newRoots = Append(@, m_peers[a]), !.todo = Tail(@),
                                     !.pc = TscNext(Tail(tsc.todo))]
               /\ peerObjs' = peerObjs
          ELSE IF m_loadCached(a, now) # NoId
          THEN /\ FreeObjs # {}
               /\ tsc' = [tsc EXCEPT !.root = Fresh, !.pc = "cached"]
               /\ peerObjs' = [peerObjs EXCEPT ![Fresh] = NewPeer(m_loadCached(a, now))]
          ELSE /\ tsc' = [tsc EXCEPT !.pc = "new"]
               /\ peerObjs' = peerObjs
    /\ UNCHANGED <<now, m_peers, m_roots, m_bestRoot, store, th, per, calls, aux>>

\* The write-locked part of m_peerFromCached, then newRootList.push_back(root).
TscInsertCached ==
    /\ tsc.pc = "cached"
    /\ LET r == m_peerFromCached(Head(tsc.todo).addr, tsc.root)
       IN /\ m_peers' = r[2]
          /\ tsc' = [tsc EXCEPT !.newRoots = Append(@, r[1]), !.root = NULL, !.todo = Tail(@),
                                !.pc = TscNext(Tail(tsc.todo))]
    /\ UNCHANGED <<now, m_roots, m_bestRoot, store, th, per, calls, aux>>
    /\ peerObjs' = Collect(peerObjs, Referenced')

\* root.set(new Peer()); root->init(...); root = this->add(cc, root), or
\* root.zero() when init fails; then newRootList.push_back(root).
TscNew(initOk) ==
    /\ tsc.pc = "new"
    /\ UNCHANGED <<now, m_roots, m_bestRoot, store, th, per, calls, aux>>
    /\ IF initOk
       THEN /\ Cardinality(FreeObjs) >= 2
            /\ LET r == TopologyAdd(Fresh, Head(tsc.todo), now)
               IN /\ m_peers' = r[2]
                  /\ tsc' = [tsc EXCEPT !.newRoots = Append(@, r[1]), !.todo = Tail(@),
                                        !.pc = TscNext(Tail(tsc.todo))]
                  /\ peerObjs' = Collect(r[3], Referenced')
       ELSE /\ tsc' = [tsc EXCEPT !.todo = Tail(@), !.pc = TscNext(Tail(tsc.todo))]
            /\ UNCHANGED <<m_peers, peerObjs>>

\* m_roots.swap(newRootList); m_rankRoots(), under m_roots_l.
TscSwap ==
    /\ tsc.pc = "swap"
    /\ \E r \in m_rankRoots(tsc.newRoots, peerObjs) :
          /\ m_roots' = r
          /\ m_bestRoot' = BestOf(r)
    /\ tsc' = [tsc EXCEPT !.pc = "done", !.newRoots = <<>>, !.todo = <<>>]
    /\ UNCHANGED <<now, m_peers, store, th, per, calls, aux>>
    /\ peerObjs' = Collect(peerObjs, Referenced')

\* trustStoreChanged has returned.
TscReturn ==
    /\ tsc.pc = "done"
    /\ tsc' = IdleTsc
    /\ UNCHANGED <<now, m_peers, peerObjs, m_roots, m_bestRoot, store, th, per, calls, aux>>

(***************************************************************************)
(* The clock.                                                              *)
(***************************************************************************)
\* One step of the clock is longer than ZT_PEER_ALIVE_TIMEOUT, which no call
\* lasts: the clock steps between calls.
Tick ==
    /\ now < MaxTicks * (ZT_PEER_ALIVE_TIMEOUT + 1)
    /\ \A t \in Threads : th[t].pc = "idle"
    /\ per.pc = "idle"
    /\ tsc.pc = "idle"
    /\ now' = now + ZT_PEER_ALIVE_TIMEOUT + 1
    /\ UNCHANGED <<m_peers, peerObjs, m_roots, m_bestRoot, store, th, per, tsc, calls, aux>>

(***************************************************************************)
(* Paths: Topology::path and m_newPath, and the path pass of               *)
(* doPeriodicTasks.  A Path is shared through SharedPtr handles: the map's, *)
(* those the callers hold, and one a Peer may keep.                        *)
(***************************************************************************)
NumPathKeys == 2      \* (local socket, remote address) pairs
MaxPathObjs == 3      \* Path objects ever allocated in a run

PathKey == 1..NumPathKeys
PathId == 1..MaxPathObjs

NoPath == [state |-> "free", key |-> 0, pinned |-> FALSE]
IdlePCall == [pc |-> "idle", key |-> 0, h |-> NULL, made |-> FALSE]
IdlePGc == [pc |-> "idle", toDelete |-> {}]

IdlePaths ==
    /\ m_paths = [k \in PathKey |-> NULL]
    /\ pathObjs = [o \in PathId |-> NoPath]
    /\ pcall = [t \in Threads |-> IdlePCall]
    /\ pgc = IdlePGc

\* The reference count of a Path: the SharedPtr handles that point at it.
RefCount(o) ==
    Cardinality({k \in PathKey : m_paths[k] = o})
      + Cardinality({t \in Threads : pcall[t].h = o})
      + (IF pathObjs[o].pinned THEN 1 ELSE 0)

\* SharedPtr::weakGC: takes the object out of the handle when this handle is
\* the only one (reference count 1 exchanged for 0 in one atomic operation).
weakGC(o) == RefCount(o) = 1

\* The pass that reaps every entry, whoever else holds the Path.
Reaped_Any(k) == m_paths[k] # NULL

\* The entries the path pass erases: d = i->second.weakGC() is not null.
Reaped(k) == m_paths[k] # NULL /\ weakGC(m_paths[k])

\* What the Topology calls on paths leave alone.
notPaths == <<now, m_peers, peerObjs, m_roots, m_bestRoot, store, th, per, tsc, calls,
              gcSnap, vl1>>

\* Topology::path: the lookup under the read lock.
PathLookup(t, k) ==
    /\ pcall[t].pc = "idle"
    /\ pcall' = [pcall EXCEPT ![t] = IF m_paths[k] # NULL
                                     THEN [pc |-> "have", key |-> k, h |-> m_paths[k],
                                           made |-> FALSE]
                                     ELSE [pc |-> "miss", key |-> k, h |-> NULL,
                                           made |-> FALSE]]
    /\ UNCHANGED <<notPaths, m_paths, pathObjs, pgc>>

\* m_newPath that stores its new Path whatever the map holds.
m_newPath_Overwriting(t) ==
    /\ pcall[t].pc = "miss"
    /\ \E o \in PathId :
          /\ pathObjs[o].state = "free"
          /\ \A q \in PathId : pathObjs[q].state = "free" => o <= q
          /\ pathObjs' = [pathObjs EXCEPT ![o] = [state |-> "live", key |-> pcall[t].key,
                                                  pinned |-> FALSE]]
          /\ m_paths' = [m_paths EXCEPT ![pcall[t].key] = o]
          /\ pcall' = [pcall EXCEPT ![t].pc = "have", ![t].h = o, ![t].made = TRUE]
    /\ UNCHANGED <<notPaths, pgc>>

\* Topology::m_newPath: a new Path, then under the write lock the entry the
\* map holds for the key, or else the new Path stored there.
m_newPath(t) ==
    /\ pcall[t].pc = "miss"
    /\ LET k == pcall[t].key
       IN IF m_paths[k] # NULL
          THEN /\ pcall' = [pcall EXCEPT ![t].pc = "have", ![t].h = m_paths[k],
                                         ![t].made = TRUE]
               /\ UNCHANGED <<m_paths, pathObjs>>
          ELSE \E o \in PathId :
                 /\ pathObjs[o].state = "free"
                 /\ \A q \in PathId : pathObjs[q].state = "free" => o <= q
                 /\ pathObjs' = [pathObjs EXCEPT ![o] = [state |-> "live", key |-> k,
                                                         pinned |-> FALSE]]
                 /\ m_paths' = [m_paths EXCEPT ![k] = o]
                 /\ pcall' = [pcall EXCEPT ![t].pc = "have", ![t].h = o, ![t].made = TRUE]
    /\ UNCHANGED <<notPaths, pgc>>

\* The caller's handle goes out of scope; keep: a Peer has taken a handle of
\* its own to the Path (Peer::received learning the path).
PathRelease(t, keep) ==
    /\ pcall[t].pc = "have"
    /\ pathObjs' = [pathObjs EXCEPT ![pcall[t].h].pinned = @ \/ keep]
    /\ pcall' = [pcall EXCEPT ![t] = IdlePCall]
    /\ UNCHANGED <<notPaths, m_paths, pgc>>

\* A Peer gives up its handle to a Path.
PeerDropsPath(o) ==
    /\ pathObjs[o].state = "live"
    /\ pathObjs[o].pinned
    /\ pathObjs' = [pathObjs EXCEPT ![o].pinned = FALSE]
    /\ UNCHANGED <<notPaths, m_paths, pcall, pgc>>

\* doPeriodicTasks, path pass under the write lock: every entry whose Path
\* the map alone holds is erased and its Path put on toDelete.
PathSweep ==
    /\ pgc.pc = "idle"
    /\ pgc' = [pc |-> "delete", toDelete |-> {m_paths[k] : k \in {j \in PathKey : Reaped(j)}}]
    /\ m_paths' = [k \in PathKey |-> IF Reaped(k) THEN NULL ELSE m_paths[k]]
    /\ UNCHANGED <<notPaths, pathObjs, pcall>>

\* doPeriodicTasks, after the lock is released: delete *i for all of toDelete.
PathDelete ==
    /\ pgc.pc = "delete"
    /\ pathObjs' = [o \in PathId |-> IF o \in pgc.toDelete
                                     THEN [pathObjs[o] EXCEPT !.state = "deleted"]
                                     ELSE pathObjs[o]]
    /\ pgc' = IdlePGc
    /\ UNCHANGED <<notPaths, m_paths, pcall>>

PathCaller(t) ==
    \/ \E k \in PathKey : PathLookup(t, k)
    \/ m_newPath(t)
    \/ \E keep \in BOOLEAN : PathRelease(t, keep)

PathGC == PathSweep \/ PathDelete

(***************************************************************************)
(* Topology under concurrent callers.                                      *)
(***************************************************************************)
\* Slots of waiting packets per WHOIS queue item.
ZT_VL1_MAX_WHOIS_WAITING_PACKETS == 2

\* p_WhoisQueueItem as constructed; an address is queued once its
\* waitingPacketCount is not 0.  A slot holds the number of a datagram, 0 if empty.
NoItem == [count |-> 0, lastRetry |-> 0, retries |-> 0,
           waiting |-> [i \in 0..(ZT_VL1_MAX_WHOIS_WAITING_PACKETS - 1) |-> 0],
           waitingSize |-> [i \in 0..(ZT_VL1_MAX_WHOIS_WAITING_PACKETS - 1) |-> 0]]

(***************************************************************************)
(* Defragmenter (m_inputPacketAssembler).  A packet of n pieces: the head  *)
(* is piece 0, and each piece carries one slice of the packet.  One        *)
(* fragment set, for the one packet ID and path of the pieces.             *)
(***************************************************************************)
ZT_MAX_PACKET_FRAGMENTS == 3    \* scaled down
MaxDeliveries == 5              \* pieces delivered in a run

\* The slice piece no carries, and the packet they make.
SliceOf(no) == 10 + no
Original(n) == [i \in 1..n |-> SliceOf(i - 1)]

NoSet == [have |-> <<>>, total |-> 0, done |-> FALSE]
IdleAssembler == [n |-> 0, todo |-> <<>>, set |-> NoSet, log |-> <<>>, out |-> <<>>,
                  expired |-> FALSE]

\* The slices of a set in the order in which they arrived.
Slices_ArrivalOrder(have) == [i \in 1..Len(have) |-> have[i].slice]

\* The slices of a set in ascending fragment order.
Slices(have) ==
    [i \in 1..Len(have) |->
        (CHOOSE e \in Range(have) :
            Cardinality({f \in Range(have) : f.no < e.no}) = i - 1).slice]

\* A Defragmenter that forgets a set the moment it completes.
assemble_ForgetDone(set, no, total, slice, old) ==
    LET e == IF old THEN NoSet ELSE set
        have == Append(e.have, [no |-> no, slice |-> slice])
        tot == IF total # 0 THEN total ELSE e.total
    IN IF no >= ZT_MAX_PACKET_FRAGMENTS \/ total > ZT_MAX_PACKET_FRAGMENTS
       THEN <<"ERR_INVALID_FRAGMENT", e, <<>>>>
       ELSE IF total # 0 /\ e.total # 0 /\ total # e.total
       THEN <<"ERR_INVALID_FRAGMENT", e, <<>>>>
       ELSE IF \E i \in DOMAIN e.have : e.have[i].no = no
       THEN <<"ERR_DUPLICATE_FRAGMENT", e, <<>>>>
       ELSE IF tot # 0 /\ Len(have) >= tot
       THEN <<"COMPLETE", NoSet, Slices(have)>>
       ELSE <<"OK", [have |-> have, total |-> tot, done |-> FALSE], <<>>>>

\* Defragmenter::assemble on the set of the piece's packet ID and path:
\* <<the outcome, the set afterwards, the slices handed back>>.  old: the set
\* is older than the assembly timeout when it is touched, and is discarded.
\* A set that has completed is remembered as done until then, and a piece
\* that arrives for it is a duplicate.
assemble(set, no, total, slice, old) ==
    LET e == IF old THEN NoSet ELSE set
        have == Append(e.have, [no |-> no, slice |-> slice])
        tot == IF total # 0 THEN total ELSE e.total
    IN IF e.done
       THEN <<"ERR_DUPLICATE_FRAGMENT", e, <<>>>>
       ELSE IF no >= ZT_MAX_PACKET_FRAGMENTS \/ total > ZT_MAX_PACKET_FRAGMENTS
       THEN <<"ERR_INVALID_FRAGMENT", e, <<>>>>
       ELSE IF total # 0 /\ e.total # 0 /\ total # e.total
       THEN <<"ERR_INVALID_FRAGMENT", e, <<>>>>
       ELSE IF \E i \in DOMAIN e.have : e.have[i].no = no
       THEN <<"ERR_DUPLICATE_FRAGMENT", e, <<>>>>
       ELSE IF tot # 0 /\ Len(have) >= tot
       THEN <<"COMPLETE", [have |-> <<>>, total |-> tot, done |-> TRUE], Slices(have)>>
       ELSE <<"OK", [have |-> have, total |-> tot, done |-> FALSE], <<>>>>

(***************************************************************************)
(* The mutexes.  A call is the sequence of the lock operations and of the  *)
(* calls out of its class that its code makes, the locked scopes as the    *)
(* braces of the code delimit them; where the code branches the sequence   *)
(* holds the set of the branches.                                          *)
(***************************************************************************)
LockNames == {"m_whoisQueue_l", "m_paths_l", "m_peers_l", "m_roots_l", "l_bestRoot"}

\* The calls in progress: two of onRemotePacket and one of each of the others.
Procs == {"rx1", "rx2", "doPeriodicTasks", "trustStoreChanged", "allPeers", "saveAll"}

Lock(l) == [op |-> "lock", l |-> l, alts |-> {}]
RLock(l) == [op |-> "rlock", l |-> l, alts |-> {}]
Unlock(l) == [op |-> "unlock", l |-> l, alts |-> {}]
CallOut(f) == [op |-> "call", l |-> f, alts |-> {}]
Branch(alts) == [op |-> "branch", l |-> "", alts |-> alts]

\* No lock held, no call in progress (prog is what is left of a call).
IdleLocks == [w |-> [l \in LockNames |-> "none"],
              r |-> [l \in LockNames |-> {}],
              prog |-> [p \in Procs |-> <<>>]]

\* Topology::m_rankRoots, called with m_roots_l held.
m_rankRootsLocks == <<Lock("l_bestRoot"), Unlock("l_bestRoot")>>

\* Topology::root(): the best root, read under its own lock.
rootLocks == <<Lock("l_bestRoot"), Unlock("l_bestRoot")>>

\* Topology::m_loadCached: no lock, a call of the store.
m_loadCachedLocks == <<CallOut("store")>>

\* Topology::m_peerFromCached: a peer that was loaded is inserted.
m_peerFromCachedLocks ==
    m_loadCachedLocks \o <<Branch({<<>>, <<Lock("m_peers_l"), Unlock("m_peers_l")>>})>>

\* Topology::peer(cc, address, true): the entry is found under the read lock,
\* or the cache is asked once the read lock is released.
peerLocks == <<RLock("m_peers_l"), Unlock("m_peers_l"), Branch({<<>>, m_peerFromCachedLocks})>>

\* Topology::add
addLocks == <<Lock("m_peers_l")>> \o m_loadCachedLocks \o <<Unlock("m_peers_l")>>

\* Topology::m_newPath
m_newPathLocks == <<Lock("m_paths_l"), Unlock("m_paths_l")>>

\* Topology::path(localSocket, fromAddr): found under the read lock, or made
\* by m_newPath.
pathLocks == <<RLock("m_paths_l"), Unlock("m_paths_l"), Branch({<<>>, m_newPathLocks})>>

\* Topology::allPeers
allPeersLocks == <<RLock("m_peers_l"), Unlock("m_peers_l"),
                   Lock("m_roots_l"), Unlock("m_roots_l")>>

\* Topology::saveAll: every Peer saved with the read lock held.
saveAllLocks == <<RLock("m_peers_l"), CallOut("Peer::save"), Unlock("m_peers_l")>>

\* Topology::doPeriodicTasks: the roots ranked, the peers scanned, each
\* stale peer erased and saved, the paths scanned.
doPeriodicTasksLocks ==
    <<Lock("m_roots_l")>> \o m_rankRootsLocks
    \o <<Unlock("m_roots_l"), RLock("m_peers_l"), Unlock("m_peers_l"),
         Branch({<<>>, <<Lock("m_peers_l"), Unlock("m_peers_l"), CallOut("Peer::save")>>}),
         Lock("m_paths_l"), Unlock("m_paths_l")>>

\* Topology::trustStoreChanged for one root: looked up, made and added when
\* there is none, then the root list swapped and ranked.
trustStoreChangedLocks ==
    peerLocks \o <<Branch({<<>>, addLocks}), Lock("m_roots_l")>>
    \o m_rankRootsLocks \o <<Unlock("m_roots_l")>>

\* m_sendPendingWhois sending inside the locked scope of its scan.
m_sendPendingWhoisLocks_SendLocked ==
    rootLocks
    \o <<Branch({<<>>,
                 <<CallOut("Peer::path"),
                   Branch({<<>>,
                           <<Lock("m_whoisQueue_l"), CallOut("Expect::sending"),
                             CallOut("Peer::send"), Unlock("m_whoisQueue_l")>>})>>})>>

\* VL1::m_sendPendingWhois: the root and its path, and with both the scan
\* under the lock, then Expect::sending and Peer::send for the packet.
m_sendPendingWhoisLocks ==
    rootLocks
    \o <<Branch({<<>>,
                 <<CallOut("Peer::path"),
                   Branch({<<>>,
                           <<Lock("m_whoisQueue_l"), Unlock("m_whoisQueue_l"),
                             CallOut("Expect::sending"), CallOut("Peer::send")>>})>>})>>

\* The WHOIS branch of onRemotePacket: the packet queued under the lock,
\* m_sendPendingWhois called after the scope when a WHOIS is due.
whoisBranchLocks ==
    <<Lock("m_whoisQueue_l"), Unlock("m_whoisQueue_l"), Branch({<<>>, m_sendPendingWhoisLocks})>>

\* VL1::onRemotePacket: the path; the peer; then a packet of a known peer
\* (dedup, the handler with Expect for an OK, peer->received), a packet
\* that waits for a WHOIS, or a HELLO of a new peer.
onRemotePacketLocks ==
    pathLocks \o <<CallOut("Path::received")>> \o peerLocks
    \o <<Branch({ <<CallOut("Peer::deduplicateIncomingPacket"), CallOut("Expect::expecting"),
                    CallOut("Peer::received")>>,
                  whoisBranchLocks,
                  addLocks \o <<CallOut("Peer::send"), CallOut("Peer::received")>> })>>

Program(p) ==
    CASE p \in {"rx1", "rx2"} -> onRemotePacketLocks
      [] p = "doPeriodicTasks" -> doPeriodicTasksLocks
      [] p = "trustStoreChanged" -> trustStoreChangedLocks
      [] p = "allPeers" -> allPeersLocks
      [] p = "saveAll" -> saveAllLocks

\* The locks p holds.
Held(p) == {l \in LockNames : locks.w[l] = p \/ p \in locks.r[l]}

Running(p) == locks.prog[p] # <<>>
NextOp(p) == Head(locks.prog[p])

\* Mutex and RWMutex are not recursive: a holder that asks again waits.
CanTake(p) ==
    CASE NextOp(p).op = "lock" -> locks.w[NextOp(p).l] = "none" /\ locks.r[NextOp(p).l] = {}
      [] NextOp(p).op = "rlock" -> locks.w[NextOp(p).l] = "none" /\ p \notin locks.r[NextOp(p).l]
      [] OTHER -> TRUE

\* What can be left of a call whose code has come to prog: a branch is
\* taken one way, and a call made with no lock held has returned.
RECURSIVE Rest(_, _)
Rest(prog, held) ==
    IF prog = <<>> THEN {<<>>}
    ELSE IF Head(prog).op = "branch"
         THEN UNION {Rest(a \o Tail(prog), held) : a \in Head(prog).alts}
    ELSE IF Head(prog).op = "call" /\ held = {}
         THEN Rest(Tail(prog), held)
    ELSE {prog}

\* The call p is made.
Begin(p) ==
    /\ ~Running(p)
    /\ \E prog \in Rest(Program(p), {}) :
          locks' = [locks EXCEPT !.prog[p] = prog]

\* p takes the lock it asks for.
Acquire(p) ==
    /\ Running(p)
    /\ NextOp(p).op \in {"lock", "rlock"}
    /\ CanTake(p)
    /\ \E prog \in Rest(Tail(locks.prog[p]), Held(p) \cup {NextOp(p).l}) :
          locks' = [locks EXCEPT !.prog[p] = prog,
                                 !.w[NextOp(p).l] = IF NextOp(p).op = "lock" THEN p ELSE @,
                                 !.r[NextOp(p).l] = IF NextOp(p).op = "rlock"
                                                    THEN @ \cup {p} ELSE @]

\* The locked scope ends.
Release(p) ==
    /\ Running(p)
    /\ NextOp(p).op = "unlock"
    /\ \E prog \in Rest(Tail(locks.prog[p]), Held(p) \ {NextOp(p).l}) :
          locks' = [locks EXCEPT !.prog[p] = prog,
                                 !.w[NextOp(p).l] = IF @ = p THEN "none" ELSE @,
                                 !.r[NextOp(p).l] = @ \ {p}]

\* p, holding a lock, calls out of its class and the call returns.
Call(p) ==
    /\ Running(p)
    /\ NextOp(p).op = "call"
    /\ \E prog \in Rest(Tail(locks.prog[p]), Held(p)) :
          locks' = [locks EXCEPT !.prog[p] = prog]

NextLocks ==
    \E p \in Procs :
       /\ \/ Begin(p)
          \/ Acquire(p)
          \/ Release(p)
          \/ Call(p)
       /\ UNCHANGED <<now, m_peers, peerObjs, m_roots, m_bestRoot, store, th, per, tsc, calls,
                      gcSnap, dg, whoisQueue, expect, sent, pathVars, m_inputPacketAssembler>>

\* VL1 as constructed, with no datagram to come.
IdleVL1 ==
    /\ dg = <<>>
    /\ whoisQueue = [a \in Addr |-> NoItem]
    /\ expect = {}
    /\ sent = {}
    /\ m_inputPacketAssembler = IdleAssembler
    /\ locks = IdleLocks

\* The persistent store at start: empty, or holding a peer saved by an earlier run.
InitStores ==
    {[a \in Addr |-> IF a \in S THEN [id |-> OwnerId(a), ts |-> 0] ELSE NoData]
       : S \in SUBSET {1}}

InitTopo ==
    /\ now = 0
    /\ m_peers = [a \in Addr |-> NULL]
    /\ peerObjs = [o \in ObjId |-> DeadPeer]
    /\ m_roots = <<>>
    /\ m_bestRoot = NULL
    /\ store \in InitStores
    /\ th = [t \in Threads |-> IdleThread]
    /\ per = IdlePer
    /\ tsc = IdleTsc
    /\ calls = [per |-> 0, tsc |-> 0]
    /\ gcSnap = <<>>
    /\ IdleVL1
    /\ IdlePaths

\* The calls one thread makes into Topology.
Caller(t) ==
    \/ \E a \in SrcAddr : CallPeer(t, a)
    \/ InsertCached(t)
    \/ \E id \in EnvIdentity, initOk \in BOOLEAN : CallAdd(t, id, initOk)
    \/ CallReceived(t)
    \/ Return(t)

Periodic ==
    \/ PerStart
    \/ PerCollect
    \/ PerErase
    \/ PerSave
    \/ PerReturn

TrustStoreChanged ==
    \/ \E R \in RootSets : TscStart(R)
    \/ TscLookup
    \/ TscInsertCached
    \/ \E initOk \in BOOLEAN : TscNew(initOk)
    \/ TscSwap
    \/ TscReturn

\* Concurrent callers and the periodic garbage collection.
NextTopo ==
    \/ \E t \in Threads : Caller(t)
    \/ Periodic
    \/ Tick

NextPath ==
    \/ \E t \in Threads : PathCaller(t)
    \/ \E o \in PathId : PeerDropsPath(o)
    \/ PathGC

\* Topology's paths under concurrent path() calls and the periodic path pass.
SpecPath == InitTopo /\ [][NextPath]_vars

SpecTopo == InitTopo /\ [][NextTopo]_vars

\* One caller, the periodic garbage collection and a trust store change.
NextRoots ==
    \/ Caller(1)
    \/ Periodic
    \/ TrustStoreChanged
    \/ Tick

SpecRoots == InitTopo /\ [][NextRoots]_vars

(***************************************************************************)
(* doPeriodicTasks run alone, from every Topology of up to NumAddr peers:  *)
(* addresses 1..n are present, at most MaxFresh of them are not stale, at  *)
(* most one of them is a root.  A peer that is not stale was heard from    *)
(* either just now or exactly ZT_PEER_ALIVE_TIMEOUT ago.                   *)
(***************************************************************************)
MaxFresh == 2

GcTicks == ZT_PEER_ALIVE_TIMEOUT + 1

InitGC ==
    /\ now = GcTicks
    /\ store = [a \in Addr |-> NoData]
    /\ th = [t \in Threads |-> IdleThread]
    /\ per = IdlePer
    /\ tsc = IdleTsc
    /\ calls = [per |-> 0, tsc |-> 0]
    /\ \E n \in 0..NumAddr :
         \E F \in SUBSET (1..n) :
           /\ Cardinality(F) <= MaxFresh
           /\ \E lr \in [F -> {1, GcTicks}] :
                \E R \in {{}} \cup {{a} : a \in 1..n} :
                  /\ m_peers = [a \in Addr |-> IF a <= n THEN a ELSE NULL]
                  /\ peerObjs = [o \in ObjId |->
                                   IF o <= n
                                   THEN [NewPeer(OwnerId(o)) EXCEPT
                                           !.lastReceive = IF o \in F THEN lr[o] ELSE 0]
                                   ELSE DeadPeer]
                  /\ m_roots = AscendingSeq(R)
                  /\ m_bestRoot = BestOf(AscendingSeq(R))
                  /\ gcSnap = Snapshot(m_peers, peerObjs, m_roots, store)
    /\ IdleVL1
    /\ IdlePaths

SpecGC == InitGC /\ [][Periodic]_vars

(***************************************************************************)
(* m_rankRoots applied to every root list of up to MaxRoots roots whose    *)
(* lastReceive and latency are drawn from RankTimes and RankLatencies.     *)
(***************************************************************************)
MaxRoots == 3

RankTimes == {0, 9, 10, 20}
RankLatencies == {0 - 1, 5, 9}

InitRank ==
    /\ now = 20
    /\ store = [a \in Addr |-> NoData]
    /\ th = [t \in Threads |-> IdleThread]
    /\ per = IdlePer
    /\ tsc = IdleTsc
    /\ calls = [per |-> 0, tsc |-> 0]
    /\ gcSnap = <<>>
    /\ IdleVL1
    /\ IdlePaths
    /\ \E n \in 1..MaxRoots :
         \E lr \in [1..n -> RankTimes], lat \in [1..n -> RankLatencies] :
           /\ m_peers = [a \in Addr |-> IF a <= n THEN a ELSE NULL]
           /\ peerObjs = [o \in ObjId |->
                            IF o <= n
                            THEN [NewPeer(OwnerId(o)) EXCEPT !.lastReceive = lr[o],
                                                             !.latency = lat[o]]
                            ELSE DeadPeer]
           /\ m_roots = [i \in 1..n |-> i]
           /\ m_bestRoot = 1

SpecRank == InitRank /\ [][PerStart]_vars

(***************************************************************************)
(* Properties of Topology.                                                 *)
(***************************************************************************)

\* The Peer objects that are live: referenced by the map or held by a caller.
LivePeers == ({m_peers[a] : a \in Addr} \cup {th[t].peer : t \in Threads}) \ {NULL}

\* C6 as stated: no two distinct Peer objects for one Address are live
\* (referenced by the peer map or by a caller) at the same time, so that all
\* add calls for one Address hold the same handle.
C6_OneLivePeerPerAddress ==
    \A o1, o2 \in LivePeers :
        peerObjs[o1].id.addr = peerObjs[o2].id.addr => o1 = o2

\* C6, amended: the peer map holds each Peer under its own Address; a call
\* that obtains a handle (peer, m_peerFromCached, add) obtains the Peer the map
\* holds for the Address when it returns; an entry of the map is never replaced
\* by another Peer, it only disappears when doPeriodicTasks erases it.
C6_AddReturnsTheMapEntry ==
    [][ /\ \A t \in Threads :
              (th[t].peer = NULL /\ th'[t].peer # NULL)
                  => th'[t].peer = m_peers'[th'[t].addr]
        /\ \A a \in Addr :
              /\ m_peers[a] # NULL =>
                    \/ m_peers'[a] = m_peers[a]
                    \/ m_peers'[a] = NULL /\ per.pc = "erase" /\ per'.toSave = m_peers[a]
              /\ m_peers'[a] # NULL => peerObjs'[m_peers'[a]].id.addr = a ]_vars

\* Two threads raced through add for one Address and hold the same Peer.
C6_Witness ==
    /\ th[1].via = "add" /\ th[2].via = "add"
    /\ th[1].addr = th[2].addr
    /\ th[1].peer = th[2].peer
    /\ th[1].peer # NULL

\* C7 as stated: at the moment doPeriodicTasks erases a peer from the peer map,
\* that peer is not a member of the current root list.
C7_NeverErasesARoot ==
    [][ (per.pc = "erase" /\ per'.pc = "save") => per'.toSave \notin Range(m_roots) ]_vars

\* C8 as stated: when trustStoreChanged has completed, the identities of the
\* peers in the root list are exactly the identities the trust store reported,
\* and every peer of the root list is in the peer map under its address.
C8_RootsAreTheTrustStoreRoots ==
    tsc.pc = "done" =>
        /\ {peerObjs[r].id : r \in Range(m_roots)} = tsc.reported
        /\ \A r \in Range(m_roots) : m_peers[peerObjs[r].id.addr] = r

\* C9: a doPeriodicTasks run without concurrent activity removes exactly the
\* peers with (now - lastReceive) > ZT_PEER_ALIVE_TIMEOUT that are not roots,
\* keeps every other peer, and saves each removed peer exactly once.
C9_SequentialGC ==
    (per.pc = "done" /\ gcSnap # <<>>) =>
        \A a \in Addr :
            LET s == gcSnap[a]
                removed == /\ s.obj # NULL
                           /\ (now - s.lastReceive) > ZT_PEER_ALIVE_TIMEOUT
                           /\ ~s.isRoot
            IN /\ m_peers[a] = IF removed THEN NULL ELSE s.obj
               /\ Cardinality({i \in 1..Len(per.saves) : per.saves[i] = a})
                      = IF removed THEN 1 ELSE 0
               /\ store[a] = IF removed THEN [id |-> OwnerId(a), ts |-> now] ELSE s.stored

\* Ten peers, one of them a root and all of them stale: after the run the peer
\* map holds only the root and the nine others were saved.
C9_Witness ==
    /\ per.pc = "done" /\ gcSnap # <<>>
    /\ \A a \in Addr : gcSnap[a].obj # NULL /\ gcSnap[a].lastReceive = 0
    /\ Cardinality({a \in Addr : gcSnap[a].isRoot}) = 1
    /\ {a \in Addr : m_peers[a] # NULL} = {a \in Addr : gcSnap[a].isRoot}
    /\ Len(per.saves) = NumAddr - 1

\* lastReceive at the resolution of the ranking.
Quantized(p) == p.lastReceive \div (ZT_PATH_KEEPALIVE_PERIOD \div 2)

\* C10 as stated: after m_rankRoots on a non-empty root list, root() is a root
\* whose quantized lastReceive is the most recent of all roots; among the roots
\* tied with it, it has the lowest known latency, and a root of unknown
\* (negative) latency ranks after every root of known latency.
C10_BestRootIsMostRecent ==
    (per.pc = "collect" /\ m_roots # <<>>) =>
        \A i \in 1..Len(m_roots) :
            LET b == peerObjs[root]
                r == peerObjs[m_roots[i]]
            IN /\ Quantized(b) >= Quantized(r)
               /\ Quantized(b) = Quantized(r) =>
                     \/ r.latency < 0
                     \/ b.latency >= 0 /\ b.latency <= r.latency

(***************************************************************************)
(* VL1: the datagrams the network delivers.  A datagram here is a whole    *)
(* packet of at least the minimum length, addressed to this node.  Its mac *)
(* field is the identity key under which its packet MAC verifies (0: under *)
(* none), hmac likewise for the HMAC of a HELLO.                           *)
(***************************************************************************)
MaxPackets == 2

\* Size of a Peer's ring of packet IDs seen.
DedupWindow == 2
ZT_WHOIS_RETRY_DELAY == 1
ZT_PROTO_VERSION_MIN == 8

\* The address of the root, when there is one.
RootAddr == NumAddr

\* The ciphers by their codes 0..3.
CipherNames == <<"NONE", "POLY1305_NONE", "POLY1305_SALSA2012", "AES_GMAC_SIV">>
CipherCode(name) == (CHOOSE i \in 1..Len(CipherNames) : CipherNames[i] = name) - 1

\* cipher = (hdr[ZT_PROTO_PACKET_FLAGS_INDEX] >> 3U) & 3U, where cfield is bits
\* 3..5 of the flags byte.
CipherOf(p) == CipherNames[(p.cfield % 4) + 1]

\* A datagram as onRemotePacket reads it: len is "short" below
\* ZT_PROTO_MIN_FRAGMENT_LENGTH, "runt" below ZT_PROTO_MIN_PACKET_LENGTH; dest
\* is "self" or "other"; comp is what LZ4_decompress_safe makes of the payload
\* ("none": the compressed flag is not set); size is its length in bytes when
\* len is "ok"; from is the path (local socket
\* and remote address) it arrived on; ver and ts are the software version and
\* the timestamp a HELLO carries.
Pkt(src, pid, cipher, verb, mac) ==
    [src |-> src, pid |-> pid, cfield |-> CipherCode(cipher), verb |-> verb, mac |-> mac,
     comp |-> "none", inRe |-> 0, proto |-> 0, id |-> NoId, hmac |-> 0, body |-> "ok",
     len |-> "ok", dest |-> "self", from |-> 1, ver |-> <<0, 0, 0>>, ts |-> 0,
     size |-> 40 + pid]

Hello(src, pid, cipher, id, proto, key) ==
    [Pkt(src, pid, cipher, "HELLO", key) EXCEPT !.proto = proto, !.id = id, !.hmac = key,
                                                !.ver = <<2, 0, proto - 10>>,
                                                !.ts = 1000 + pid]

\* The packet ID the next outgoing packet gets (SymmetricKey::nextMessage):
\* a counter, so an ID a thread has drawn and not yet sent is not drawn again.
FirstOutId == 101
OutId(snt) == FirstOutId + Cardinality(snt) + Cardinality({t \in Threads : th[t].pid # 0})

(***************************************************************************)
(* Expect: the packet IDs whose replies are awaited, each with the time it *)
(* was registered; an entry older than ZT_EXPECT_TTL is not honoured.      *)
(***************************************************************************)
ZT_EXPECT_TTL == 2

\* Expect::sending(packetId, now)
sending(tbl, id, ticks) == {e \in tbl : e.id # id} \cup {[id |-> id, at |-> ticks]}

\* Expect::expecting(inRePacketId, now): <<the answer, the table afterwards>>.
expecting(tbl, id, ticks) ==
    << \E e \in tbl : e.id = id /\ ticks - e.at <= ZT_EXPECT_TTL,
       {e \in tbl : e.id # id} >>

DatagramSeq ==
    << Pkt(1, 1, "POLY1305_SALSA2012", "FRAME", 1),
       Pkt(1, 1, "POLY1305_SALSA2012", "FRAME", 0),
       Pkt(1, 2, "POLY1305_NONE", "FRAME", 0),
       Pkt(1, 2, "POLY1305_NONE", "USER_MESSAGE", 1),
       Pkt(1, 2, "NONE", "FRAME", 1),
       Pkt(1, 2, "AES_GMAC_SIV", "FRAME", 1),
       [Pkt(1, 2, "POLY1305_SALSA2012", "OK", 1) EXCEPT !.inRe = FirstOutId],
       Pkt(1, 2, "POLY1305_SALSA2012", "ERROR", 1),
       Pkt(1, 2, "POLY1305_SALSA2012", "UNKNOWN", 1),
       [Pkt(1, 2, "POLY1305_SALSA2012", "FRAME", 1) EXCEPT !.comp = "bad"],
       Pkt(2, 1, "POLY1305_SALSA2012", "FRAME", 2),
       Hello(1, 3, "POLY1305_NONE", OwnerId(1), 11, 1),
       Hello(1, 3, "POLY1305_NONE", OwnerId(1), 11, 0),
       Hello(1, 3, "POLY1305_NONE", [addr |-> 1, key |-> CollidingKey(1)], 11, CollidingKey(1)),
       Hello(1, 3, "NONE", OwnerId(1), 10, 0),
       Hello(1, 3, "POLY1305_NONE", [addr |-> 1, key |-> 2], 11, 2),
       Hello(1, 3, "POLY1305_SALSA2012", OwnerId(1), 11, 1) >>

NewDg(p) == [pkt |-> p, state |-> "flight", auth |-> FALSE, handlers |-> <<>>,
             traces |-> {}, received |-> 0, replied |-> 0, helloOk |-> FALSE,
             whois |-> "none", relayed |-> 0, ok |-> "none", fresh |-> FALSE,
             queuedAs |-> 0, tflags |-> {"ZT_TRACE_F_VL1"}, backend |-> {}]

\* The verbs by the kind of their handler.
StubVerbs == {"ERROR", "WHOIS", "RENDEZVOUS", "ECHO", "PUSH_DIRECT_PATHS"}
VL2Verbs == {"FRAME", "EXT_FRAME", "MULTICAST_LIKE", "NETWORK_CREDENTIALS",
             "NETWORK_CONFIG_REQUEST", "NETWORK_CONFIG", "MULTICAST_GATHER",
             "MULTICAST_FRAME_deprecated", "MULTICAST"}
HandledVerbs == StubVerbs \cup VL2Verbs \cup {"HELLO", "OK", "USER_MESSAGE", "ENCAP"}

(***************************************************************************)
(* Buf: the payload of a packet as bytes, offsets counted from             *)
(* ZT_PROTO_PACKET_PAYLOAD_START.  A 64-bit integer is its eight base-256  *)
(* digits, most significant first, which is the order wI64 writes and rI64 *)
(* reads them in.                                                          *)
(***************************************************************************)
U16(n) == <<(n \div 256) % 256, n % 256>>
U64(n) == <<0, 0, 0, 0, (n \div 16777216) % 256, (n \div 65536) % 256,
            (n \div 256) % 256, n % 256>>

\* Buf::rI8(ii) and Buf::rI64(ii): a read past the end yields 0 and is told
\* by readOverflow afterwards.
rI8(buf, ii) == IF ii + 1 <= Len(buf) THEN buf[ii + 1] ELSE 0
rI64(buf, ii) == [i \in 1..8 |-> rI8(buf, ii + i - 1)]
readOverflow(ii, size) == ii > size

VERB_HELLO == 1
ZT_PROTO_VERSION == 20
ZT_HMACSHA384_LEN == 48

\* InetAddress as Buf::wO marshals it: the type, the IP address, the port.
wO(from) == <<4, 10, 0, 0, from, 35, 41>>

\* The payload m_HELLO writes into its reply to the HELLO p, for a peer whose
\* HELLO HMAC key is key.
OkHelloPayload(p, key) ==
    <<VERB_HELLO>> \o U64(p.pid) \o U64(p.ts) \o <<ZT_PROTO_VERSION, 2, 0>> \o U16(0)
    \o wO(p.from) \o U16(0)
    \o (IF p.proto >= 11 THEN U16(0) \o [i \in 1..ZT_HMACSHA384_LEN |-> key] ELSE <<>>)

\* What m_OK reads of a payload before it asks Expect.
ParseOk(payload) ==
    [inReVerb |-> rI8(payload, 13), inRePacketId |-> rI64(payload, 14),
     overflow |-> readOverflow(22, Len(payload))]

\* The authenticator of the reply m_HELLO sends: Protocol::armor is not called
\* on it; for proto >= 11 an HMAC-SHA-384 is appended.
OkHelloAuth(p) == IF p.proto >= 11 THEN {"HMAC"} ELSE {}

\* The OK(HELLO) m_HELLO hands to peer->send for the HELLO p of datagram d:
\* to, path and the packet ID id drawn from the peer's key; inRe, cause and at
\* are history.
HelloReply_EchoNothing(p, d, to, key, id, ticks) ==
    [to |-> to, verb |-> "OK", pid |-> id, about |-> {}, inRe |-> p.pid, at |-> ticks,
     exp |-> FALSE, auth |-> OkHelloAuth(p),
     payload |-> OkHelloPayload([p EXCEPT !.pid = 0, !.ts = 0], key),
     path |-> p.from, cause |-> d]

HelloReply(p, d, to, key, id, ticks) ==
    [to |-> to, verb |-> "OK", pid |-> id, about |-> {}, inRe |-> p.pid, at |-> ticks,
     exp |-> FALSE, auth |-> OkHelloAuth(p), payload |-> OkHelloPayload(p, key),
     path |-> p.from, cause |-> d]

(***************************************************************************)
(* VL1: what onRemotePacket uses of Peer and Topology.                     *)
(***************************************************************************)
LastN(q, n) == IF Len(q) <= n THEN q ELSE SubSeq(q, Len(q) - n + 1, Len(q))

\* Peer::deduplicateIncomingPacket, one atomic step on the ring: <<whether the
\* packet ID was seen within the window, the ring afterwards>>.
deduplicateIncomingPacket(ring, pid) ==
    IF pid \in Range(ring) THEN <<TRUE, ring>>
    ELSE <<FALSE, LastN(Append(ring, pid), DedupWindow)>>

\* Topology::peer(cc, address, true): <<the handle, the new map, the new heap>>.
TopologyPeer(a, ticks) ==
    IF m_peers[a] # NULL THEN <<m_peers[a], m_peers, peerObjs>>
    ELSE IF m_loadCached(a, ticks) # NoId /\ FreeObjs # {}
    THEN <<Fresh, [m_peers EXCEPT ![a] = Fresh],
           [peerObjs EXCEPT ![Fresh] = NewPeer(m_loadCached(a, ticks))]>>
    ELSE <<NULL, m_peers, peerObjs>>

\* The Poly1305 comparison that accepts whatever the header's MAC field holds.
MacOk_Always(p, key) == TRUE

\* The Poly1305 MAC of the packet, keyed from the peer's identity key, equals
\* the MAC field of the header.
MacOk(p, key) == p.mac = key

\* auth with every cipher treated as authenticated.
AuthOf_Any(cipher) == {"AUTHENTICATED"}

\* The auth flags the cipher switch leaves after a successful MAC check.
AuthOf(cipher) ==
    CASE cipher = "POLY1305_NONE" -> {"AUTHENTICATED"}
      [] cipher = "POLY1305_SALSA2012" -> {"AUTHENTICATED", "ENCRYPTED"}
      [] OTHER -> {}

\* The identity comparison of m_HELLO left out.
IdentityMismatch_Never(known, claimed) == FALSE

\* peer->identity() != id
IdentityMismatch(known, claimed) == known # claimed

\* A test that takes every datagram as addressed to this node.
Addressed_Any(p) == TRUE

\* destination == m_ctx.identity.address()
Addressed(p) == p.dest = "self"

\* The packet is over: the thread's handles go out of scope.
Finish(t, d, rec) ==
    /\ dg' = [dg EXCEPT ![d] = [rec EXCEPT !.state = "done"]]
    /\ th' = [th EXCEPT ![t] = IdleThread]

\* A hook that calls the backend whatever the trace flags are.
incomingPacketDropped_Ungated(rec, events) ==
    [rec EXCEPT !.traces = @ \cup events, !.backend = @ \cup events]

\* Trace::incomingPacketDropped for the drops in events (none, or one):
\* m_incomingPacketDropped, the backend, is called if ZT_TRACE_F_VL1 is set in
\* m_traceFlags, which the call handling the datagram reads as tflags.
\* History: traces, the drops the hook was called with.
incomingPacketDropped(rec, events) ==
    [rec EXCEPT !.traces = @ \cup events,
                !.backend = IF "ZT_TRACE_F_VL1" \in rec.tflags THEN @ \cup events ELSE @]

Traced(rec, code, reason) == incomingPacketDropped(rec, {<<code, reason>>})

\* What stays as it is throughout onRemotePacket.
rest == <<now, m_roots, m_bestRoot, store, per, tsc, calls, gcSnap, pathVars,
          m_inputPacketAssembler, locks>>

(***************************************************************************)
(* VL1::onRemotePacket, a step per critical section.                       *)
(***************************************************************************)
\* From entry to the end of the cipher switch: the unencrypted HELLO goes to
\* m_HELLO; otherwise the peer is looked up and the packet MAC checked.
\* The threads are interchangeable, and so are the copies of one datagram: the
\* idle thread of lowest number takes the datagram, the first copy goes first.
Receive(t, d) ==
    /\ th[t].pc = "idle"
    /\ \A u \in Threads : u < t => th[u].pc # "idle"
    /\ d \in DOMAIN dg
    /\ dg[d].state = "flight"
    /\ \A e \in 1..(d - 1) : dg[e].state = "flight" => dg[e].pkt # dg[d].pkt
    /\ UNCHANGED <<rest, whoisQueue, expect, sent>>
    /\ LET p == dg[d].pkt
           rec == [dg[d] EXCEPT !.state = "rx"]
           me == [IdleThread EXCEPT !.d = d, !.addr = p.src, !.ticks = now]
       IN IF p.len = "short" \/ (Addressed(p) /\ p.len = "runt")
          THEN /\ Finish(t, d, rec)
               /\ UNCHANGED <<m_peers, peerObjs>>
          ELSE IF ~Addressed(p)
          THEN /\ Finish(t, d, [rec EXCEPT !.relayed = @ + 1])
               /\ UNCHANGED <<m_peers, peerObjs>>
          ELSE IF CipherOf(p) \in {"POLY1305_NONE", "NONE"} /\ p.verb = "HELLO"
          THEN /\ th' = [th EXCEPT ![t] = [me EXCEPT !.pc = "hello"]]
               /\ dg' = [dg EXCEPT ![d] = rec]
               /\ UNCHANGED <<m_peers, peerObjs>>
          ELSE LET r == TopologyPeer(p.src, now)
                   peer == r[1]
                   checked == /\ peer # NULL
                              /\ CipherOf(p) \in {"POLY1305_NONE", "POLY1305_SALSA2012"}
               IN /\ m_peers' = r[2]
                  /\ IF checked /\ ~MacOk(p, r[3][peer].id.key)
                     THEN Finish(t, d, Traced(rec, "0xcc89c812", "MAC_FAILED"))
                     ELSE IF peer # NULL /\ CipherOf(p) \notin Range(CipherNames)
                     THEN Finish(t, d, Traced(rec, "0x5b001099", "INVALID_OBJECT"))
                     ELSE IF peer # NULL /\ AuthOf(CipherOf(p)) # {}
                     THEN /\ th' = [th EXCEPT ![t] = [me EXCEPT !.pc = "dedup", !.peer = peer]]
                          /\ dg' = [dg EXCEPT ![d] = [rec EXCEPT !.auth = TRUE]]
                     ELSE /\ th' = [th EXCEPT ![t] = [me EXCEPT !.pc = "whois", !.peer = peer]]
                          /\ dg' = [dg EXCEPT ![d] = rec]
                  /\ peerObjs' = Collect(r[3], Referenced')

\* The dedup step without its early return: the packet ID is recorded and the
\* packet goes on to the verb switch whether or not it was seen.
Dedup_NotDropping(t) ==
    /\ th[t].pc = "dedup"
    /\ UNCHANGED <<rest, m_peers, whoisQueue, expect, sent>>
    /\ th' = [th EXCEPT ![t].pc = "dispatch"]
    /\ dg' = [dg EXCEPT ![th[t].d].fresh = TRUE]
    /\ peerObjs' = [peerObjs EXCEPT ![th[t].peer].dedup =
                       deduplicateIncomingPacket(@, dg[th[t].d].pkt.pid)[2]]

\* peer->deduplicateIncomingPacket(packetId)
Dedup(t) ==
    /\ th[t].pc = "dedup"
    /\ UNCHANGED <<rest, m_peers, whoisQueue, expect, sent>>
    /\ LET d == th[t].d
           peer == th[t].peer
           r == deduplicateIncomingPacket(peerObjs[peer].dedup, dg[d].pkt.pid)
       IN IF r[1]
          THEN /\ Finish(t, d, dg[d])
               /\ peerObjs' = Collect(peerObjs, Referenced')
          ELSE /\ th' = [th EXCEPT ![t].pc = "dispatch"]
               /\ dg' = [dg EXCEPT ![d].fresh = TRUE]
               /\ peerObjs' = [peerObjs EXCEPT ![peer].dedup = r[2]]

\* A test that takes every result of the decompression.
Decompressed_Always(p) == TRUE

\* (uncompressedLen >= 0) && (uncompressedLen <= ZT_BUF_MEM_SIZE - ZT_PROTO_PACKET_PAYLOAD_START),
\* or the compressed flag is not set.
Decompressed(p) == p.comp \notin {"bad", "tooLong"}

\* peer->received whatever the handler returned.
peerReceived_Always(ok) == TRUE

\* if (likely(ok)) peer->received(...)
peerReceived(ok) == ok

\* Handlers that accept every packet.
HandlerOk_Always(p, ticks) == {TRUE}

\* The values a verb handler may return: m_OK as written; the handlers whose
\* body is compiled out return without a value; VL2's handlers are not VL1's.
HandlerOk(p, ticks) ==
    IF p.verb = "OK" THEN {p.body # "short" /\ expecting(expect, p.inRe, ticks)[1]}
    ELSE IF p.verb \in StubVerbs \cup VL2Verbs THEN BOOLEAN
    ELSE {TRUE}

\* The drop the dispatch of p reports, if any.
DispatchTraces(p, ticks) ==
    IF p.verb = "OK" /\ p.body = "short" THEN {<<"0x4c1f1ff7", "MALFORMED_PACKET">>}
    ELSE IF p.verb = "OK" /\ ~expecting(expect, p.inRe, ticks)[1]
    THEN {<<"0x4c1f1ff8", "REPLY_NOT_EXPECTED">>}
    ELSE IF p.verb \notin HandledVerbs \cup {"NOP"}
    THEN {<<"0xeeeeeff0", "UNRECOGNIZED_VERB">>}
    ELSE {}

\* Decompression, the verb switch, and peer->received when the handler is ok.
Dispatch(t) ==
    /\ th[t].pc = "dispatch"
    /\ UNCHANGED <<rest, m_peers, whoisQueue, sent>>
    /\ LET d == th[t].d
           p == dg[d].pkt
           peer == th[t].peer
       IN IF ~Decompressed(p)
          THEN /\ Finish(t, d, Traced(dg[d], "0xee9e4392", "INVALID_COMPRESSED_DATA"))
               /\ expect' = expect
               /\ peerObjs' = Collect(peerObjs, Referenced')
          ELSE IF p.verb = "HELLO"
          THEN /\ th' = [th EXCEPT ![t].pc = "hello", ![t].nested = TRUE]
               /\ UNCHANGED <<dg, expect, peerObjs>>
          ELSE \E ok \in HandlerOk(p, th[t].ticks) :
                 LET rec == [incomingPacketDropped(dg[d], DispatchTraces(p, th[t].ticks))
                               EXCEPT
                               !.handlers = IF p.verb \in HandledVerbs
                                            THEN Append(@, p.verb) ELSE @,
                               !.ok = IF ok THEN "true" ELSE "false",
                               !.received = IF peerReceived(ok) THEN @ + 1 ELSE @]
                 IN /\ Finish(t, d, rec)
                    /\ expect' = IF p.verb = "OK" /\ p.body # "short"
                                 THEN expecting(expect, p.inRe, th[t].ticks)[2] ELSE expect
                    /\ peerObjs' = Collect(IF peerReceived(ok)
                                           THEN [peerObjs EXCEPT
                                                   ![peer].lastReceive = th[t].ticks]
                                           ELSE peerObjs, Referenced')

\* A test that finds every queue item due.
Due_Always(item, ticks) == TRUE

\* Whether the WHOIS for a queue item is due at the caller's time.
Due(item, ticks) == (ticks - item.lastRetry) >= ZT_WHOIS_RETRY_DELAY

\* The slot a packet takes that always is the first one.
WhoisSlot_First(count) == 0

\* wpidx = wq.waitingPacketCount++ % ZT_VL1_MAX_WHOIS_WAITING_PACKETS
WhoisSlot(count) == count % ZT_VL1_MAX_WHOIS_WAITING_PACKETS

\* The packet did not authenticate: it waits in the WHOIS queue of its source.
\* History: queuedAs, the waitingPacketCount the packet brought about.
Whois(t) ==
    /\ th[t].pc = "whois"
    /\ UNCHANGED <<rest, m_peers, expect, sent>>
    /\ LET d == th[t].d
           src == dg[d].pkt.src
           wq == whoisQueue[src]
           wpidx == WhoisSlot(wq.count)
           sendPending == Due(wq, th[t].ticks)
           rec == [dg[d] EXCEPT !.queuedAs = wq.count + 1]
       IN /\ whoisQueue' = [whoisQueue EXCEPT
                              ![src] = [wq EXCEPT !.count = @ + 1,
                                                  !.waitingSize[wpidx] = dg[d].pkt.size,
                                                  !.waiting[wpidx] = d]]
          /\ IF sendPending
             THEN /\ th' = [th EXCEPT ![t].pc = "sendWhois"]
                  /\ dg' = [dg EXCEPT ![d] = rec]
             ELSE Finish(t, d, [rec EXCEPT !.whois = "notDue"])
    /\ peerObjs' = Collect(peerObjs, Referenced')

\* VL1::m_sendPendingWhois up to the release of m_whoisQueue_l: the root and
\* its path, then the scan of the queue; pathOk: the root has a path.
SendWhois(t, pathOk) ==
    /\ th[t].pc = "sendWhois"
    /\ UNCHANGED <<rest, m_peers, expect, sent>>
    /\ LET d == th[t].d
           toSend == {a \in Addr : whoisQueue[a].count > 0 /\ Due(whoisQueue[a], th[t].ticks)}
       IN IF root = NULL
          THEN /\ whoisQueue' = whoisQueue
               /\ Finish(t, d, [dg[d] EXCEPT !.whois = "noRoot"])
          ELSE IF ~pathOk
          THEN /\ whoisQueue' = whoisQueue
               /\ Finish(t, d, [dg[d] EXCEPT !.whois = "noPath"])
          ELSE /\ whoisQueue' = [a \in Addr |->
                                   IF a \in toSend
                                   THEN [whoisQueue[a] EXCEPT !.lastRetry = th[t].ticks,
                                                              !.retries = @ + 1]
                                   ELSE whoisQueue[a]]
               /\ IF toSend = {}
                  THEN Finish(t, d, [dg[d] EXCEPT !.whois = "notDue"])
                  ELSE /\ th' = [th EXCEPT ![t].pc = "whoisOut", ![t].toSend = toSend,
                                           ![t].step = 1, ![t].pid = OutId(sent)]
                       /\ dg' = dg
    /\ peerObjs' = Collect(peerObjs, Referenced')

\* The order of the last two calls m_sendPendingWhois makes for a packet.
WhoisSteps_SendFirst == <<"send", "sending">>
WhoisSteps == <<"sending", "send">>

\* The addresses of a WHOIS, ZT_ADDRESS_LENGTH bytes each (Address::copyTo).
RECURSIVE WhoisPayload(_)
WhoisPayload(as) ==
    IF as = <<>> THEN <<>> ELSE <<0, 0, 0, 0, Head(as)>> \o WhoisPayload(Tail(as))

\* Protocol::armor(outp, p, key, root->cipher()) on the WHOIS.
WhoisAuth == {"ARMOR"}

\* VL1::m_sendPendingWhois after the scan, one call a step: the packet is
\* registered with Expect and handed to the root, on the root's path (0).
WhoisOut(t) ==
    /\ th[t].pc = "whoisOut"
    /\ UNCHANGED <<rest, m_peers, whoisQueue>>
    /\ LET d == th[t].d
           what == WhoisSteps[th[t].step]
           registered == \E i \in 1..(th[t].step - 1) : WhoisSteps[i] = "sending"
       IN /\ IF what = "sending"
             THEN /\ expect' = sending(expect, th[t].pid, th[t].ticks)
                  /\ sent' = sent
             ELSE /\ sent' = sent \cup {[to |-> peerObjs[root].id.addr, verb |-> "WHOIS",
                                         pid |-> th[t].pid, about |-> th[t].toSend,
                                         inRe |-> 0, at |-> th[t].ticks,
                                         exp |-> registered, auth |-> WhoisAuth,
                                         payload |-> WhoisPayload(AscendingSeq(th[t].toSend)),
                                         path |-> 0, cause |-> d]}
                  /\ expect' = expect
          /\ IF th[t].step < Len(WhoisSteps)
             THEN /\ th' = [th EXCEPT ![t].step = @ + 1]
                  /\ dg' = dg
             ELSE Finish(t, d, [dg[d] EXCEPT !.whois = "sent"])
    /\ peerObjs' = Collect(peerObjs, Referenced')

(***************************************************************************)
(* VL1::m_HELLO.                                                           *)
(***************************************************************************)
\* The early checks without the comparison of the identity's address with
\* the packet's source.
HelloEarlyDrop_NoAddressCheck(p) ==
    IF p.proto < ZT_PROTO_VERSION_MIN THEN {<<"0x907a9891", "PEER_TOO_OLD">>}
    ELSE IF p.id = NoId THEN {<<"0x707a9810", "INVALID_OBJECT">>}
    ELSE {}

\* The checks m_HELLO makes before it looks the peer up: the drop reported.
HelloEarlyDrop(p) ==
    IF p.proto < ZT_PROTO_VERSION_MIN THEN {<<"0x907a9891", "PEER_TOO_OLD">>}
    ELSE IF p.id = NoId THEN {<<"0x707a9810", "INVALID_OBJECT">>}
    ELSE IF p.id.addr # p.src THEN {<<"0x707a9010", "MAC_FAILED">>}
    ELSE {}

\* Up to the peer being found or a new Peer made; initOk: Peer::init succeeds.
HelloEnter(t, initOk) ==
    /\ th[t].pc = "hello"
    /\ UNCHANGED <<rest, whoisQueue, expect, sent>>
    /\ LET d == th[t].d
           p == dg[d].pkt
           rec == [dg[d] EXCEPT !.handlers = Append(@, "HELLO"), !.ok = "false"]
           r == TopologyPeer(p.id.addr, th[t].ticks)
           peer == r[1]
       IN IF HelloEarlyDrop(p) # {}
          THEN /\ Finish(t, d, incomingPacketDropped(rec, HelloEarlyDrop(p)))
               /\ m_peers' = m_peers
               /\ peerObjs' = Collect(peerObjs, Referenced')
          ELSE /\ m_peers' = r[2]
               /\ IF peer # NULL
                  THEN /\ IF IdentityMismatch(r[3][peer].id, p.id)
                          THEN Finish(t, d, Traced(rec, "0x707a9891", "MAC_FAILED"))
                          ELSE /\ th' = [th EXCEPT ![t].pc = "helloDedup", ![t].hpeer = peer]
                               /\ dg' = [dg EXCEPT ![d] = rec]
                       /\ peerObjs' = Collect(r[3], Referenced')
                  ELSE IF ~locallyValidate(p.id)
                  THEN /\ Finish(t, d, Traced(rec, "0x707a9892", "INVALID_OBJECT"))
                       /\ peerObjs' = Collect(r[3], Referenced')
                  ELSE IF ~initOk
                  THEN /\ Finish(t, d, Traced(rec, "0x707a9893", "UNSPECIFIED"))
                       /\ peerObjs' = Collect(r[3], Referenced')
                  ELSE /\ FreeObjs # {}
                       /\ th' = [th EXCEPT ![t].pc = "helloAdd", ![t].cand = Fresh]
                       /\ dg' = [dg EXCEPT ![d] = rec]
                       /\ peerObjs' = [r[3] EXCEPT ![Fresh] = NewPeer(p.id)]

\* peer->deduplicateIncomingPacket(packetId) on the peer m_HELLO found.
HelloDedup(t) ==
    /\ th[t].pc = "helloDedup"
    /\ UNCHANGED <<rest, m_peers, whoisQueue, expect, sent>>
    /\ LET d == th[t].d
           peer == th[t].hpeer
           r == deduplicateIncomingPacket(peerObjs[peer].dedup, dg[d].pkt.pid)
       IN IF r[1]
          THEN /\ Finish(t, d, dg[d])
               /\ peerObjs' = Collect(peerObjs, Referenced')
          ELSE /\ th' = [th EXCEPT ![t].pc = "helloAuth"]
               /\ dg' = [dg EXCEPT ![d].fresh = TRUE]
               /\ peerObjs' = [peerObjs EXCEPT ![peer].dedup = r[2]]

\* peer = m_ctx.topology->add(cc, peer)
HelloAdd(t) ==
    /\ th[t].pc = "helloAdd"
    /\ UNCHANGED <<rest, vl1>>
    /\ Cardinality(FreeObjs) >= 1
    /\ LET r == TopologyAdd(th[t].cand, dg[th[t].d].pkt.id, th[t].ticks)
       IN /\ m_peers' = r[2]
          /\ th' = [th EXCEPT ![t].pc = "helloAuth", ![t].hpeer = r[1], ![t].cand = NULL]
          /\ peerObjs' = Collect(r[3], Referenced')

\* The HMAC-SHA-384 (proto >= 11) or Poly1305 (older) check of a HELLO
\* against the keys of the peer it was matched with.
HelloAuthOk(p, key) == IF p.proto >= 11 THEN p.hmac = key ELSE p.mac = key

\* What the end of m_HELLO leaves in Expect for the OK it sends with packet
\* ID id: setRemoteVersion, send and return make no call on Expect.
HelloExpect_Sending(tbl, id, ticks) == sending(tbl, id, ticks)
HelloExpect(tbl, id, ticks) == tbl

\* From the authentication of the HELLO to the OK reply, and peer->received
\* by the caller on the handle m_HELLO returned.
HelloAuth(t) ==
    /\ th[t].pc = "helloAuth"
    /\ UNCHANGED <<rest, m_peers, whoisQueue>>
    /\ LET d == th[t].d
           p == dg[d].pkt
           peer == th[t].hpeer
           recv == IF th[t].nested THEN th[t].peer ELSE peer
           passed == [dg[d] EXCEPT !.helloOk = TRUE]
           returned == [passed EXCEPT !.ok = "true", !.received = @ + 1]
           heard == [peerObjs EXCEPT ![recv].lastReceive = th[t].ticks]
       IN IF ~HelloAuthOk(p, peerObjs[peer].id.key)
          THEN /\ Finish(t, d, Traced(dg[d], IF p.proto >= 11 THEN "0x707a9891"
                                              ELSE "0x11bfff82", "MAC_FAILED"))
               /\ UNCHANGED <<sent, expect>>
               /\ peerObjs' = Collect(peerObjs, Referenced')
          ELSE IF p.body = "badSentTo"
          THEN /\ Finish(t, d, Traced(passed, "0x707a9811", "INVALID_OBJECT"))
               /\ UNCHANGED <<sent, expect>>
               /\ peerObjs' = Collect(peerObjs, Referenced')
          ELSE IF p.proto >= 11 /\ p.body = "badDict"
          THEN /\ Finish(t, d, Traced(returned, "0x707a9815", "INVALID_OBJECT"))
               /\ UNCHANGED <<sent, expect>>
               /\ peerObjs' = Collect(heard, Referenced')
          ELSE /\ Finish(t, d, [returned EXCEPT !.replied = @ + 1])
               /\ sent' = sent \cup {HelloReply(p, d, peerObjs[peer].id.addr,
                                                 peerObjs[peer].id.key, OutId(sent),
                                                 th[t].ticks)}
               /\ expect' = HelloExpect(expect, OutId(sent), th[t].ticks)
               /\ peerObjs' = Collect([heard EXCEPT ![peer].vProto = p.proto,
                                                    ![peer].vVersion = p.ver],
                                      Referenced')

(***************************************************************************)
(* VL1 with concurrent onRemotePacket calls: every run delivers up to      *)
(* MaxPackets datagrams of DatagramSeq, in any order, to the threads.      *)
(***************************************************************************)
Scenarios ==
    {s \in UNION {[1..n -> 1..Len(DatagramSeq)] : n \in 0..MaxPackets} :
        \A i \in 1..(Len(s) - 1) : s[i] <= s[i + 1]}

Init ==
    /\ now = ZT_WHOIS_RETRY_DELAY
    /\ store \in InitStores
    /\ th = [t \in Threads |-> IdleThread]
    /\ per = IdlePer
    /\ tsc = IdleTsc
    /\ calls = [per |-> 0, tsc |-> 0]
    /\ gcSnap = <<>>
    /\ whoisQueue = [a \in Addr |-> NoItem]
    /\ expect = {}
    /\ sent = {}
    /\ m_inputPacketAssembler = IdleAssembler
    /\ locks = IdleLocks
    /\ IdlePaths
    /\ \E hasRoot \in BOOLEAN :
          /\ m_peers = [a \in Addr |-> IF hasRoot /\ a = RootAddr THEN 1 ELSE NULL]
          /\ peerObjs = [o \in ObjId |-> IF hasRoot /\ o = 1
                                         THEN NewPeer(OwnerId(RootAddr)) ELSE DeadPeer]
          /\ m_roots = IF hasRoot THEN <<1>> ELSE <<>>
          /\ m_bestRoot = IF hasRoot THEN 1 ELSE NULL
    /\ \E s \in Scenarios : dg = [i \in 1..Len(s) |-> NewDg(DatagramSeq[s[i]])]

onRemotePacket(t) ==
    \/ \E d \in 1..MaxPackets : Receive(t, d)
    \/ Dedup(t)
    \/ Dispatch(t)
    \/ Whois(t)
    \/ \E pathOk \in BOOLEAN : SendWhois(t, pathOk)
    \/ WhoisOut(t)
    \/ \E initOk \in BOOLEAN : HelloEnter(t, initOk)
    \/ HelloDedup(t)
    \/ HelloAdd(t)
    \/ HelloAuth(t)

Next == \E t \in Threads : onRemotePacket(t)

Spec == Init /\ [][Next]_vars

(***************************************************************************)
(* VL1 with a clock: the WHOIS queue, its retries and the Expect table.    *)
(* Address 2 is unknown to the node, address 1 is a peer it has cached;    *)
(* the replies name the first WHOIS the node sends.                        *)
(***************************************************************************)
MaxWhoisPackets == 3
MaxWhoisNow == 4

WhoisSeq ==
    << Pkt(2, 1, "POLY1305_SALSA2012", "FRAME", 2),
       [Pkt(1, 2, "POLY1305_SALSA2012", "OK", 1) EXCEPT !.inRe = FirstOutId],
       [Pkt(1, 4, "POLY1305_SALSA2012", "OK", 1) EXCEPT !.inRe = FirstOutId] >>

\* Time passes between and during the calls, up to max.
WhoisTick(max) ==
    /\ now < max
    /\ now' = now + 1
    /\ UNCHANGED <<m_peers, peerObjs, m_roots, m_bestRoot, store, th, per, tsc, calls,
                   gcSnap, vl1, pathVars>>

WhoisScenarios ==
    {s \in UNION {[1..n -> 1..Len(WhoisSeq)] : n \in 0..MaxWhoisPackets} :
        \A i \in 1..(Len(s) - 1) : s[i] <= s[i + 1]}

\* The node with or without a root, the peer of address 1 in the cache.
InitQueue ==
    /\ now = ZT_WHOIS_RETRY_DELAY
    /\ store = [a \in Addr |-> IF a = 1 THEN [id |-> OwnerId(a), ts |-> 0] ELSE NoData]
    /\ th = [t \in Threads |-> IdleThread]
    /\ per = IdlePer
    /\ tsc = IdleTsc
    /\ calls = [per |-> 0, tsc |-> 0]
    /\ gcSnap = <<>>
    /\ whoisQueue = [a \in Addr |-> NoItem]
    /\ expect = {}
    /\ sent = {}
    /\ m_inputPacketAssembler = IdleAssembler
    /\ locks = IdleLocks
    /\ IdlePaths
    /\ \E hasRoot \in BOOLEAN :
          /\ m_peers = [a \in Addr |-> IF hasRoot /\ a = RootAddr THEN 1 ELSE NULL]
          /\ peerObjs = [o \in ObjId |-> IF hasRoot /\ o = 1
                                         THEN NewPeer(OwnerId(RootAddr)) ELSE DeadPeer]
          /\ m_roots = IF hasRoot THEN <<1>> ELSE <<>>
          /\ m_bestRoot = IF hasRoot THEN 1 ELSE NULL

InitWhois ==
    /\ InitQueue
    /\ \E s \in WhoisScenarios : dg = [i \in 1..Len(s) |-> NewDg(WhoisSeq[s[i]])]

NextWhois ==
    \/ \E t \in Threads :
          \/ \E d \in 1..MaxWhoisPackets : Receive(t, d)
          \/ Dedup(t)
          \/ Dispatch(t)
          \/ Whois(t)
          \/ \E pathOk \in BOOLEAN : SendWhois(t, pathOk)
          \/ WhoisOut(t)
    \/ WhoisTick(MaxWhoisNow)

SpecWhois == InitWhois /\ [][NextWhois]_vars

\* The same, where every call in progress goes on to its return and the clock
\* goes on to MaxWhoisNow.
SpecWhoisFair == InitWhois /\ [][NextWhois]_vars /\ WF_vars(NextWhois)

\* The same node with a root that keeps its path, when only packets of the
\* unknown address 2 arrive, one call at a time, for as long as it takes the
\* retries to pass WhoisGiveUp.
WhoisGiveUp == 5
MaxGiveUpPackets == 6
MaxGiveUpNow == 7

InitGiveUp ==
    /\ InitQueue
    /\ root # NULL
    /\ \E n \in 0..MaxGiveUpPackets : dg = [i \in 1..n |-> NewDg(WhoisSeq[1])]

NextGiveUp ==
    \/ \E t \in {1} :
          \/ \E d \in 1..MaxGiveUpPackets : Receive(t, d)
          \/ Whois(t)
          \/ SendWhois(t, TRUE)
          \/ WhoisOut(t)
    \/ WhoisTick(MaxGiveUpNow)

SpecGiveUp == InitGiveUp /\ [][NextGiveUp]_vars

(***************************************************************************)
(* VL1 where a statement of onRemotePacket may throw (an allocation that   *)
(* fails).  The function is declared noexcept: an exception that leaves it *)
(* ends the process in std::terminate.                                     *)
(***************************************************************************)
\* std::terminate was called: the process is gone.
Terminated == \E d \in DOMAIN dg : dg[d].state = "terminate"

\* The (local socket, remote address) pair a datagram arrives on.
PathKeyOf(p) == ((p.src - 1) % NumPathKeys) + 1

\* The first statements of onRemotePacket, before its try block: Topology::path
\* looks the Path up or makes it (failed: new Path or the map insertion of
\* m_newPath throws), then path->received.
PathEntry(d, failed) ==
    /\ ~Terminated
    /\ d \in DOMAIN dg
    /\ dg[d].state = "arriving"
    /\ \A e \in 1..(d - 1) : dg[e].state = "arriving" => dg[e].pkt # dg[d].pkt
    /\ LET k == PathKeyOf(dg[d].pkt)
       IN IF m_paths[k] # NULL
          THEN /\ ~failed
               /\ dg' = [dg EXCEPT ![d].state = "flight"]
               /\ UNCHANGED <<m_paths, pathObjs>>
          ELSE IF failed
          THEN /\ dg' = [dg EXCEPT ![d].state = "terminate"]
               /\ UNCHANGED <<m_paths, pathObjs>>
          ELSE \E o \in PathId :
                 /\ pathObjs[o].state = "free"
                 /\ \A q \in PathId : pathObjs[q].state = "free" => o <= q
                 /\ pathObjs' = [pathObjs EXCEPT ![o] = [state |-> "live", key |-> k,
                                                         pinned |-> FALSE]]
                 /\ m_paths' = [m_paths EXCEPT ![k] = o]
                 /\ dg' = [dg EXCEPT ![d].state = "flight"]
    /\ UNCHANGED <<now, m_peers, peerObjs, m_roots, m_bestRoot, store, th, per, tsc, calls,
                   gcSnap, whoisQueue, expect, sent, pcall, pgc, m_inputPacketAssembler,
                   locks>>

\* A statement inside the try block throws: the stack unwinds, the handles and
\* locks of the call are released, and the catch-all reports the error.
Throw(t) ==
    /\ ~Terminated
    /\ th[t].pc # "idle"
    /\ UNCHANGED <<rest, m_peers, whoisQueue, expect, sent>>
    /\ Finish(t, th[t].d, Traced(dg[th[t].d], "0xea1b6dea", "unexpectedError"))
    /\ peerObjs' = Collect(peerObjs, Referenced')

InitExc ==
    /\ now = ZT_WHOIS_RETRY_DELAY
    /\ store \in InitStores
    /\ th = [t \in Threads |-> IdleThread]
    /\ per = IdlePer
    /\ tsc = IdleTsc
    /\ calls = [per |-> 0, tsc |-> 0]
    /\ gcSnap = <<>>
    /\ whoisQueue = [a \in Addr |-> NoItem]
    /\ expect = {}
    /\ sent = {}
    /\ m_inputPacketAssembler = IdleAssembler
    /\ locks = IdleLocks
    /\ IdlePaths
    /\ m_peers = [a \in Addr |-> IF a = RootAddr THEN 1 ELSE NULL]
    /\ peerObjs = [o \in ObjId |-> IF o = 1 THEN NewPeer(OwnerId(RootAddr)) ELSE DeadPeer]
    /\ m_roots = <<1>>
    /\ m_bestRoot = 1
    /\ \E s \in Scenarios :
          dg = [i \in 1..Len(s) |-> [NewDg(DatagramSeq[s[i]]) EXCEPT !.state = "arriving"]]

NextExc ==
    \/ \E d \in 1..MaxPackets : \E failed \in BOOLEAN : PathEntry(d, failed)
    \/ \E t \in Threads : Throw(t)
    \/ \E t \in Threads : \E d \in 1..MaxPackets : ~Terminated /\ Receive(t, d)
    \/ \E t \in Threads : ~Terminated /\ Dedup(t)
    \/ \E t \in Threads : ~Terminated /\ Dispatch(t)
    \/ \E t \in Threads : ~Terminated /\ Whois(t)
    \/ \E t \in Threads : \E pathOk \in BOOLEAN : ~Terminated /\ SendWhois(t, pathOk)
    \/ \E t \in Threads : ~Terminated /\ WhoisOut(t)
    \/ \E t \in Threads : \E initOk \in BOOLEAN : ~Terminated /\ HelloEnter(t, initOk)
    \/ \E t \in Threads : ~Terminated /\ HelloDedup(t)
    \/ \E t \in Threads : ~Terminated /\ HelloAdd(t)
    \/ \E t \in Threads : ~Terminated /\ HelloAuth(t)

SpecExc == InitExc /\ [][NextExc]_vars

(***************************************************************************)
(* VL1 on the pieces of a fragmented packet: a FRAME of the peer of        *)
(* address 1, which is cached.  Each run delivers up to MaxDeliveries      *)
(* pieces of the packet, in any order and with any repetition.             *)
(***************************************************************************)
FragPkt == Pkt(1, 1, "POLY1305_SALSA2012", "FRAME", 1)

\* The piece of number no of a packet of n pieces as onRemotePacket passes it
\* to assemble: the head says nothing of the total, a fragment carries it.
Piece(no, n) == [no |-> no, total |-> IF no = 0 THEN 0 ELSE n, slice |-> SliceOf(no)]

\* Going on with every piece the Defragmenter did not refuse.
Proceeds_OnOk(res) == res \in {"OK", "COMPLETE"}

\* case Defragmenter<ZT_MAX_PACKET_FRAGMENTS>::COMPLETE: break; default: return;
Proceeds(res) == res = "COMPLETE"

\* pktv.mergeCopy(*pkt): the packet the slices make; the MAC of a packet
\* whose slices are not the sender's in the sender's order does not verify.
mergeCopy(slices, n) == IF slices = Original(n) THEN FragPkt ELSE [FragPkt EXCEPT !.mac = 0]

\* onRemotePacket for one piece, up to the packet being fully assembled:
\* the call returns unless assemble completed the packet.
Fragment(old) ==
    /\ m_inputPacketAssembler.todo # <<>>
    /\ Len(dg) < MaxPackets
    /\ LET A == m_inputPacketAssembler
           piece == Head(A.todo)
           r == assemble(A.set, piece.no, piece.total, piece.slice, old)
       IN /\ m_inputPacketAssembler' =
                [A EXCEPT !.todo = Tail(@), !.set = r[2],
                          !.log = Append(@, [no |-> piece.no, res |-> r[1]]),
                          !.out = IF r[1] = "COMPLETE" THEN Append(@, r[3]) ELSE @,
                          !.expired = @ \/ (old /\ A.set # NoSet)]
          /\ dg' = IF Proceeds(r[1]) THEN Append(dg, NewDg(mergeCopy(r[3], A.n))) ELSE dg
    /\ UNCHANGED <<now, m_peers, peerObjs, m_roots, m_bestRoot, store, th, per, tsc, calls,
                   gcSnap, whoisQueue, expect, sent, pathVars, locks>>

InitFrag ==
    /\ now = ZT_WHOIS_RETRY_DELAY
    /\ store = [a \in Addr |-> IF a = 1 THEN [id |-> OwnerId(a), ts |-> 0] ELSE NoData]
    /\ th = [t \in Threads |-> IdleThread]
    /\ per = IdlePer
    /\ tsc = IdleTsc
    /\ calls = [per |-> 0, tsc |-> 0]
    /\ gcSnap = <<>>
    /\ whoisQueue = [a \in Addr |-> NoItem]
    /\ expect = {}
    /\ sent = {}
    /\ IdlePaths
    /\ m_peers = [a \in Addr |-> NULL]
    /\ peerObjs = [o \in ObjId |-> DeadPeer]
    /\ m_roots = <<>>
    /\ m_bestRoot = NULL
    /\ dg = <<>>
    /\ locks = IdleLocks
    /\ \E n \in 2..ZT_MAX_PACKET_FRAGMENTS :
          \E s \in UNION {[1..k -> 0..(n - 1)] : k \in 0..MaxDeliveries} :
             m_inputPacketAssembler =
                [IdleAssembler EXCEPT !.n = n, !.todo = [i \in 1..Len(s) |-> Piece(s[i], n)]]

NextFrag ==
    \/ \E old \in BOOLEAN : Fragment(old)
    \/ \E t \in Threads : \/ \E d \in 1..MaxPackets : Receive(t, d)
                          \/ Dedup(t)
                          \/ Dispatch(t)

SpecFrag == InitFrag /\ [][NextFrag]_vars

(***************************************************************************)
(* VL1 on the datagrams the header checks, the HELLO checks and the        *)
(* decompression tell apart.  Address 1 is a peer, cached or not.          *)
(***************************************************************************)
WireSeq ==
    << [Pkt(1, 1, "POLY1305_SALSA2012", "FRAME", 1) EXCEPT !.len = "short"],
       [Pkt(1, 1, "POLY1305_SALSA2012", "FRAME", 1) EXCEPT !.len = "short", !.dest = "other"],
       [Pkt(1, 1, "POLY1305_SALSA2012", "FRAME", 1) EXCEPT !.len = "runt"],
       [Pkt(1, 1, "POLY1305_SALSA2012", "FRAME", 1) EXCEPT !.dest = "other"],
       Pkt(1, 1, "POLY1305_SALSA2012", "FRAME", 1),
       Pkt(1, 2, "POLY1305_SALSA2012", "NOP", 1),
       Pkt(1, 2, "POLY1305_SALSA2012", "UNKNOWN", 1),
       Pkt(1, 2, "NONE", "FRAME", 1),
       [Pkt(1, 2, "POLY1305_SALSA2012", "FRAME", 1) EXCEPT !.cfield = 6],
       [Pkt(1, 2, "POLY1305_SALSA2012", "FRAME", 1) EXCEPT !.comp = "ok"],
       [Pkt(1, 2, "POLY1305_SALSA2012", "FRAME", 1) EXCEPT !.comp = "bad"],
       [Pkt(1, 2, "POLY1305_SALSA2012", "FRAME", 1) EXCEPT !.comp = "tooLong"],
       [Pkt(2, 2, "POLY1305_SALSA2012", "FRAME", 2) EXCEPT !.comp = "bad"],
       Hello(1, 3, "POLY1305_NONE", OwnerId(1), 11, 1),
       Hello(1, 3, "POLY1305_NONE", OwnerId(1), ZT_PROTO_VERSION_MIN - 1, 1),
       Hello(1, 3, "POLY1305_NONE", NoId, 11, 1),
       Hello(1, 3, "POLY1305_NONE", OwnerId(2), 11, 2),
       Hello(1, 3, "POLY1305_SALSA2012", OwnerId(2), 11, 2) >>

WireScenarios ==
    {s \in UNION {[1..n -> 1..Len(WireSeq)] : n \in 0..MaxPackets} :
        \A i \in 1..(Len(s) - 1) : s[i] <= s[i + 1]}

InitWire ==
    /\ now = ZT_WHOIS_RETRY_DELAY
    /\ store \in InitStores
    /\ th = [t \in Threads |-> IdleThread]
    /\ per = IdlePer
    /\ tsc = IdleTsc
    /\ calls = [per |-> 0, tsc |-> 0]
    /\ gcSnap = <<>>
    /\ whoisQueue = [a \in Addr |-> NoItem]
    /\ expect = {}
    /\ sent = {}
    /\ m_inputPacketAssembler = IdleAssembler
    /\ locks = IdleLocks
    /\ IdlePaths
    /\ m_peers = [a \in Addr |-> IF a = RootAddr THEN 1 ELSE NULL]
    /\ peerObjs = [o \in ObjId |-> IF o = 1 THEN NewPeer(OwnerId(RootAddr)) ELSE DeadPeer]
    /\ m_roots = <<1>>
    /\ m_bestRoot = 1
    /\ \E s \in WireScenarios : dg = [i \in 1..Len(s) |-> NewDg(WireSeq[s[i]])]

SpecWire == InitWire /\ [][Next]_vars

(***************************************************************************)
(* Properties of onRemotePacket, over the datagrams of a run.              *)
(***************************************************************************)
\* C1: a verb handler other than m_HELLO is invoked for a datagram only if
\* Topology holds a Peer for the datagram's source address, the cipher is an
\* authenticated one and the packet MAC verified under that peer's key; a
\* datagram from an unknown source or with another cipher reaches no handler.
C1_HandlerOnlyIfAuthenticated ==
    \A d \in DOMAIN dg :
       (\E i \in DOMAIN dg[d].handlers : dg[d].handlers[i] # "HELLO") =>
          LET p == dg[d].pkt
          IN /\ dg[d].auth
             /\ CipherOf(p) \in {"POLY1305_NONE", "POLY1305_SALSA2012"}
             /\ m_peers[p.src] # NULL
             /\ p.mac = peerObjs[m_peers[p.src]].id.key

\* A FRAME was handled, and a FRAME of a known peer sent with cipher NONE was
\* processed to its end without a handler.
C1_Witness ==
    \E d, e \in DOMAIN dg :
       /\ dg[d].handlers = <<"FRAME">>
       /\ dg[e].state = "done"
       /\ CipherOf(dg[e].pkt) = "NONE"
       /\ dg[e].pkt.verb = "FRAME"
       /\ m_peers[dg[e].pkt.src] # NULL
       /\ dg[e].handlers = <<>>

\* C2: when the same authenticated packet (same peer, same packet ID) is
\* delivered more than once within the dedup window, under any interleaving
\* of the onRemotePacket calls, its verb handler is invoked exactly once;
\* every other delivery ends without a handler, without a trace event and
\* without peer->received.
C2_DedupExactlyOnce ==
    \A d \in DOMAIN dg :
       LET p == dg[d].pkt
           copies == {e \in DOMAIN dg : dg[e].pkt = p /\ dg[e].auth}
           handled == {e \in copies : dg[e].handlers # <<>>}
       IN (/\ dg[d].auth
           /\ p.verb \in HandledVerbs
           /\ p.comp = "none"
           /\ \A f \in DOMAIN dg :
                 (dg[f].pkt.src = p.src /\ dg[f].pkt.pid = p.pid) => dg[f].pkt = p
           /\ Cardinality({f \in DOMAIN dg : /\ dg[f].pkt.src = p.src
                                             /\ dg[f].pkt.pid # p.pid})
                 < DedupWindow)
          => /\ Cardinality(handled) <= 1
             /\ \A e \in copies : Len(dg[e].handlers) <= 1
             /\ (\A e \in copies : dg[e].state = "done") => Cardinality(handled) = 1
             /\ \A e \in copies \ handled :
                   dg[e].state = "done" => dg[e].traces = {} /\ dg[e].received = 0

\* Both copies of an authenticated FRAME are over, and one was handled.
C2_Witness ==
    \E d, e \in DOMAIN dg :
       /\ d # e
       /\ dg[d].pkt = dg[e].pkt
       /\ dg[d].pkt.verb = "FRAME"
       /\ dg[d].state = "done" /\ dg[e].state = "done"
       /\ dg[d].auth /\ dg[e].auth
       /\ dg[d].handlers = <<"FRAME">> /\ dg[d].received = 1
       /\ dg[e].handlers = <<>>

\* C3: the delivery of a POLY1305_NONE or POLY1305_SALSA2012 packet of a
\* known peer whose MAC does not verify under the peer's key reports
\* incomingPacketDropped(0xcc89c812, MAC_FAILED) and returns: no handler, no
\* peer->received, the peer's liveness and dedup ring and the WHOIS queue as
\* they were.
C3_MacFailureDrops ==
    [][\A d \in DOMAIN dg :
          LET p == dg[d].pkt
              a == p.src
          IN (/\ dg[d].state = "flight" /\ dg'[d].state # "flight"
              /\ ~(CipherOf(p) \in {"POLY1305_NONE", "NONE"} /\ p.verb = "HELLO")
              /\ CipherOf(p) \in {"POLY1305_NONE", "POLY1305_SALSA2012"}
              /\ m_peers'[a] # NULL
              /\ p.mac # peerObjs'[m_peers'[a]].id.key)
             => /\ dg'[d] = [dg[d] EXCEPT !.state = "done",
                                          !.traces = {<<"0xcc89c812", "MAC_FAILED">>},
                                          !.backend = dg'[d].backend]
                /\ th' = th
                /\ whoisQueue' = whoisQueue
                /\ expect' = expect /\ sent' = sent
                /\ peerObjs'[m_peers'[a]].dedup =
                      IF m_peers[a] # NULL THEN peerObjs[m_peers[a]].dedup ELSE <<>>
                /\ peerObjs'[m_peers'[a]].lastReceive =
                      IF m_peers[a] # NULL THEN peerObjs[m_peers[a]].lastReceive ELSE 0
      ]_vars

\* A packet of a known peer was dropped at the MAC comparison.
C3_Witness ==
    \E d \in DOMAIN dg :
       /\ dg[d].state = "done"
       /\ dg[d].pkt.verb = "FRAME"
       /\ m_peers[dg[d].pkt.src] # NULL
       /\ dg[d].pkt.mac # peerObjs[m_peers[dg[d].pkt.src]].id.key
       /\ dg[d].traces = {<<"0xcc89c812", "MAC_FAILED">>}
       /\ dg[d].handlers = <<>>

\* C4: while a Peer for an address stays in Topology its identity does not
\* change; a HELLO that reaches the peer lookup with an identity of that
\* address other than the Peer's is dropped with MAC_FAILED (0x707a9891), no
\* handle is returned, no OK is sent, and the Peer's identity, remote version
\* and dedup ring stay as they were.
C4_HelloNeverChangesIdentity ==
    [][/\ \A a \in Addr :
            (m_peers[a] # NULL /\ m_peers'[a] # NULL)
               => peerObjs'[m_peers'[a]].id = peerObjs[m_peers[a]].id
       /\ \A t \in Threads :
            (/\ th[t].pc = "hello" /\ th'[t] # th[t]
             /\ HelloEarlyDrop(dg[th[t].d].pkt) = {}
             /\ m_peers'[dg[th[t].d].pkt.id.addr] # NULL
             /\ peerObjs'[m_peers'[dg[th[t].d].pkt.id.addr]].id # dg[th[t].d].pkt.id)
            => LET d == th[t].d
                   a == dg[d].pkt.id.addr
               IN /\ dg'[d].state = "done"
                  /\ dg'[d].traces = dg[d].traces \cup {<<"0x707a9891", "MAC_FAILED">>}
                  /\ dg'[d].received = 0 /\ dg'[d].replied = 0 /\ ~dg'[d].helloOk
                  /\ th'[t] = IdleThread
                  /\ sent' = sent
                  /\ m_peers[a] # NULL =>
                        /\ m_peers'[a] = m_peers[a]
                        /\ peerObjs'[m_peers[a]] = peerObjs[m_peers[a]]
      ]_vars

\* A HELLO carrying a second identity of a known peer's address was dropped.
C4_Witness ==
    \E d \in DOMAIN dg :
       LET p == dg[d].pkt
       IN /\ dg[d].state = "done"
          /\ p.verb = "HELLO"
          /\ p.id # NoId
          /\ p.id.addr = p.src
          /\ m_peers[p.src] # NULL
          /\ peerObjs[m_peers[p.src]].id # p.id
          /\ <<"0x707a9891", "MAC_FAILED">> \in dg[d].traces
          /\ dg[d].replied = 0

\* C5: m_HELLO adds a Peer to Topology only for a HELLO that passes the HELLO
\* authentication: a Peer in the map that is neither a root nor loaded from
\* the cache belongs to an address with a HELLO that passed, or one that is
\* still being processed.
C5_PeerOnlyForAuthenticatedHello ==
    \A a \in Addr :
       (/\ m_peers[a] # NULL
        /\ store[a] = NoData
        /\ m_peers[a] \notin Range(m_roots))
       => \E d \in DOMAIN dg :
             /\ dg[d].pkt.verb = "HELLO"
             /\ dg[d].pkt.src = a
             /\ dg[d].helloOk \/ dg[d].state = "rx"

(***************************************************************************)
(* Properties of the paths.                                                *)
(***************************************************************************)
\* C11: paths are interned: under any interleaving of path() / m_newPath
\* calls, every caller that holds a Path for a key holds the object the map
\* has for that key, so all callers of one key hold the same object, and no
\* Path is the entry of two keys.
C11_PathsInterned ==
    /\ \A t \in Threads :
          pcall[t].pc = "have" =>
             /\ pcall[t].h # NULL
             /\ m_paths[pcall[t].key] = pcall[t].h
             /\ pathObjs[pcall[t].h].key = pcall[t].key
    /\ \A t, u \in Threads :
          (pcall[t].pc = "have" /\ pcall[u].pc = "have" /\ pcall[t].key = pcall[u].key)
             => pcall[t].h = pcall[u].h
    /\ \A k, j \in PathKey : (k # j /\ m_paths[k] # NULL) => m_paths[k] # m_paths[j]

\* Two callers that both missed in the lookup and both went through
\* m_newPath hold the same Path for the same key.
C11_Witness ==
    /\ \A t \in Threads : pcall[t].pc = "have" /\ pcall[t].made
    /\ pcall[1].key = pcall[2].key
    /\ pcall[1].h = pcall[2].h

\* C12: the path pass of doPeriodicTasks erases and deletes a Path only when
\* the map's handle is the only one: a Path that a caller in flight or a Peer
\* refers to is in the map, is not on toDelete and is not deleted.
C12_NoLiveHandleToDeletedPath ==
    \A o \in PathId :
       (pathObjs[o].pinned \/ \E t \in Threads : pcall[t].h = o) =>
          /\ pathObjs[o].state = "live"
          /\ o \notin pgc.toDelete
          /\ m_paths[pathObjs[o].key] = o

\* The path pass has taken a Path out of the map while a caller holds
\* another Path and a Peer holds a third one.
C12_Witness ==
    /\ pgc.pc = "delete"
    /\ pgc.toDelete # {}
    /\ \E t \in Threads : pcall[t].pc = "have" /\ ~pathObjs[pcall[t].h].pinned
    /\ \E o \in PathId : pathObjs[o].pinned /\ \A t \in Threads : pcall[t].h # o

(***************************************************************************)
(* Properties of the WHOIS queue, the Expect table and the replies.        *)
(***************************************************************************)
\* C13: the packets held in whoisQueue[S] are replayed once a Peer for S
\* arrives through a successful HELLO: when no onRemotePacket call is in
\* progress and a HELLO of S has passed, no packet of S waits in the queue.
C13_QueuedPacketsReplayed ==
    (\A t \in Threads : th[t].pc = "idle") =>
       \A a \in Addr :
          (/\ m_peers[a] # NULL
           /\ \E h \in DOMAIN dg : dg[h].pkt.src = a /\ dg[h].helloOk)
          => \A i \in DOMAIN whoisQueue[a].waiting : whoisQueue[a].waiting[i] = 0

\* C14: the WHOIS lookups of an address are given up at the retry cap: the
\* retries counter of a queued address never passes WhoisGiveUp, and no more
\* than WhoisGiveUp WHOIS requests naming the address are ever sent.
C14_WhoisGivenUpAfterCap ==
    \A a \in Addr :
       /\ whoisQueue[a].retries <= WhoisGiveUp
       /\ Cardinality({s \in sent : s.verb = "WHOIS" /\ a \in s.about}) <= WhoisGiveUp

\* The WHOIS requests sent that name address a.
WhoisFor(a) == {s \in sent : s.verb = "WHOIS" /\ a \in s.about}

\* C15: m_sendPendingWhois takes a queued address into a WHOIS only when the
\* caller's time is at least ZT_WHOIS_RETRY_DELAY past the address's last
\* retry, and then adds one to its retries and sets its last retry to the
\* caller's time; nothing else changes either field.  Hence, whatever the
\* interleaving of the calls, two WHOIS requests naming the same address are
\* at least ZT_WHOIS_RETRY_DELAY apart.
C15_WhoisRateLimited ==
    [][/\ \A a \in Addr :
            LET q == whoisQueue[a]
                r == whoisQueue'[a]
            IN (r.retries # q.retries \/ r.lastRetry # q.lastRetry) =>
                  \E t \in Threads :
                     /\ th[t].pc = "sendWhois"
                     /\ th'[t].pc = "whoisOut"
                     /\ a \in th'[t].toSend
                     /\ th[t].ticks - q.lastRetry >= ZT_WHOIS_RETRY_DELAY
                     /\ r.retries = q.retries + 1
                     /\ r.lastRetry = th[t].ticks
       /\ \A a \in Addr : \A s1, s2 \in WhoisFor(a)' :
            s1 # s2 => (s1.at - s2.at >= ZT_WHOIS_RETRY_DELAY
                          \/ s2.at - s1.at >= ZT_WHOIS_RETRY_DELAY)
      ]_vars

\* An address was requested a second time, by a call that ran while another
\* call was still in progress.
C15_Witness ==
    \E a \in Addr :
       /\ whoisQueue[a].retries >= 2
       /\ Cardinality(WhoisFor(a)) >= 2
       /\ \E t \in Threads : th[t].pc # "idle"

C17_RetryEventuallySent ==
    \A a \in SrcAddr :
       (/\ whoisQueue[a].count > 0
        /\ whoisQueue[a].retries = 1
        /\ m_peers[a] = NULL
        /\ \A d \in DOMAIN dg : dg[d].pkt.verb # "OK"
        /\ now - whoisQueue[a].lastRetry >= ZT_WHOIS_RETRY_DELAY)
       ~> (whoisQueue[a].retries >= 2 /\ Cardinality(WhoisFor(a)) >= 2)

\* C18: m_OK accepts a well-formed OK only if Expect holds its in-re packet
\* ID, registered no longer than ZT_EXPECT_TTL before the call's time.  An OK
\* whose in-re ID was never registered, has expired or was consumed by an
\* earlier reply is reported as REPLY_NOT_EXPECTED and peer->received is not
\* called for it; after either outcome Expect no longer holds the ID.
C18_UnexpectedReplyDropped ==
    [][\A t \in Threads :
          LET d == th[t].d
              p == dg[d].pkt
              peer == th[t].peer
              live == \E e \in expect : e.id = p.inRe /\ th[t].ticks - e.at <= ZT_EXPECT_TTL
          IN (/\ th[t].pc = "dispatch" /\ th'[t].pc = "idle"
              /\ p.verb = "OK" /\ p.comp # "bad" /\ p.body # "short") =>
                /\ dg'[d].handlers = <<"OK">>
                /\ live => /\ dg'[d].traces = {}
                           /\ dg'[d].received = 1
                           /\ peerObjs'[peer].lastReceive = th[t].ticks
                /\ ~live => /\ dg'[d].traces = {<<"0x4c1f1ff8", "REPLY_NOT_EXPECTED">>}
                            /\ dg'[d].received = 0
                            /\ peerObjs'[peer].lastReceive = peerObjs[peer].lastReceive
                /\ \A e \in expect' : e.id # p.inRe
      ]_vars

\* The reply to the first WHOIS was accepted, and a second reply naming the
\* same WHOIS was dropped as not expected.
C18_Witness ==
    \E d, e \in DOMAIN dg :
       /\ dg[d].pkt.verb = "OK" /\ dg[e].pkt.verb = "OK"
       /\ dg[d].pkt.inRe = dg[e].pkt.inRe /\ dg[d].pkt.pid # dg[e].pkt.pid
       /\ dg[d].state = "done" /\ dg[d].received = 1 /\ dg[d].traces = {}
       /\ dg[e].state = "done" /\ dg[e].received = 0
       /\ dg[e].traces = {<<"0x4c1f1ff8", "REPLY_NOT_EXPECTED">>}

(***************************************************************************)
(* Properties of m_HELLO's reply.                                          *)
(***************************************************************************)
\* The OK replies sent to the HELLO of datagram d.
HelloReplies(d) ==
    {s \in sent : s.verb = "OK" /\ s.to = dg[d].pkt.src /\ s.inRe = dg[d].pkt.pid}

\* A HELLO that passed every check of m_HELLO, the call returned.
ValidHelloDone(d) ==
    /\ dg[d].pkt.verb = "HELLO" /\ dg[d].pkt.body = "ok"
    /\ dg[d].state = "done" /\ dg[d].helloOk

\* C19: after a valid HELLO has been handled, Topology holds a Peer with the
\* HELLO's identity and remote protocol version for the source (created by
\* the call when there was none), the call has sent one OK(HELLO) reply and
\* reported no drop, and the Expect table does not hold the packet ID of any
\* OK reply: m_HELLO registers nothing with Expect.
C19_ValidHelloRepliedNotExpected ==
    /\ \A d \in DOMAIN dg :
          ValidHelloDone(d) =>
             LET p == dg[d].pkt
             IN /\ m_peers[p.src] # NULL
                /\ peerObjs[m_peers[p.src]].id = p.id
                /\ peerObjs[m_peers[p.src]].vProto = p.proto
                /\ dg[d].replied = 1 /\ dg[d].received = 1
                /\ HelloReplies(d) # {}
                /\ dg[d].traces = {}
    /\ \A s \in sent : s.verb = "OK" => \A e \in expect : e.id # s.pid

\* The statement with the registration: the packet ID of an OK(HELLO) reply
\* sent for a valid HELLO is in the Expect table.
C19_ReplyIdRecordedInExpect ==
    \A d \in DOMAIN dg :
       ValidHelloDone(d) => \E s \in HelloReplies(d) : \E e \in expect : e.id = s.pid

\* The only datagram of the run is a valid HELLO from address 1, of which
\* nothing was cached: the call created the Peer and replied.
C19_Witness ==
    /\ Len(dg) = 1 /\ ValidHelloDone(1)
    /\ store[1] = NoData
    /\ m_peers[1] # NULL /\ dg[1].replied = 1 /\ Cardinality(HelloReplies(1)) = 1

(***************************************************************************)
(* Properties of onRemotePacket when a statement throws.                   *)
(***************************************************************************)
\* C20: no exception leaves onRemotePacket: whatever statement of a call
\* throws, the process is not terminated, and a call that has returned after
\* an exception has reported it through unexpectedError and holds nothing.
C20_NoExceptionLeavesOnRemotePacket ==
    /\ ~Terminated
    /\ \A t \in Threads : th[t].pc = "idle" => th[t] = IdleThread

(***************************************************************************)
(* Properties of the header checks, the HELLO checks, the decompression    *)
(* and peer->received.                                                     *)
(***************************************************************************)
\* The datagrams whose header onRemotePacket reads to the end.
WellFormed(p) == p.len = "ok" /\ p.dest = "self"

\* C21: a packet other than a HELLO, from a known peer, whose cipher field
\* (bits 3..5 of the flags byte) holds a value that is none of the four
\* defined ciphers is dropped with INVALID_OBJECT: it is not authenticated,
\* reaches no handler and is not queued for WHOIS.
C21_UndefinedCipherDropped ==
    \A d \in DOMAIN dg :
       LET p == dg[d].pkt
       IN (/\ dg[d].state = "done" /\ WellFormed(p)
           /\ p.verb # "HELLO"
           /\ p.cfield >= Len(CipherNames)
           /\ m_peers[p.src] # NULL) =>
              /\ ~dg[d].auth
              /\ dg[d].handlers = <<>> /\ dg[d].received = 0
              /\ dg[d].whois = "none"
              /\ \A a \in Addr : \A i \in DOMAIN whoisQueue[a].waiting :
                    whoisQueue[a].waiting[i] # d
              /\ dg[d].traces = {<<"0x5b001099", "INVALID_OBJECT">>}

\* C22: a packet is stored in the WHOIS queue only when the lookup of its
\* source found no peer; in particular a packet of a known peer whose cipher
\* is NONE or AES_GMAC_SIV is not stored and starts no WHOIS.
C22_QueuedOnlyIfSourceUnknown ==
    [][\A t \in Threads :
          (th[t].pc = "whois" /\ th'[t] # th[t] /\ whoisQueue' # whoisQueue) =>
              th[t].peer = NULL]_vars

\* C27: the call for a datagram shorter than a fragment header, or addressed
\* to another node, returns leaving Topology, the peers, the WHOIS queue,
\* Expect and the packets sent as they were; a datagram addressed to another
\* node is handed to m_relay once, one too short to hold an address is not.
C27_ShortOrMisaddressedNoEffect ==
    [][\A d \in DOMAIN dg :
          LET p == dg[d].pkt
          IN (/\ dg[d].state = "flight" /\ dg'[d].state # "flight"
              /\ (p.len = "short" \/ p.dest # "self")) =>
                 /\ UNCHANGED <<m_peers, peerObjs, m_roots, store, whoisQueue, expect, sent, th>>
                 /\ dg'[d] = [dg[d] EXCEPT !.state = "done",
                                           !.relayed = IF p.len = "short" THEN 0 ELSE 1]]_vars

\* A datagram too short and a datagram for another node have both been taken.
C27_Witness ==
    /\ \E d \in DOMAIN dg : dg[d].state = "done" /\ dg[d].pkt.len = "short" /\ dg[d].relayed = 0
    /\ \E d \in DOMAIN dg : /\ dg[d].state = "done" /\ dg[d].pkt.len # "short"
                            /\ dg[d].pkt.dest # "self" /\ dg[d].relayed = 1

\* A HELLO that fails one of the checks m_HELLO makes before the peer lookup.
HelloRejectedEarly(p) ==
    /\ p.verb = "HELLO" /\ WellFormed(p)
    /\ \/ p.proto < ZT_PROTO_VERSION_MIN
       \/ p.id = NoId
       \/ p.id.addr # p.src

C29_BadCompressionDropped ==
    \A d \in DOMAIN dg :
       LET p == dg[d].pkt
           dropped == <<"0xee9e4392", "INVALID_COMPRESSED_DATA">> \in dg[d].traces
       IN /\ dropped => /\ dg[d].auth /\ dg[d].fresh /\ dg[d].state = "done"
                        /\ p.comp \in {"bad", "tooLong"}
          /\ (dg[d].state = "done" /\ p.comp \in {"bad", "tooLong"}) =>
                /\ dg[d].handlers = <<>> \/ ~dg[d].auth
                /\ dg[d].auth => dg[d].received = 0 /\ dg[d].ok = "none"
                /\ dg[d].auth => dg[d].traces \in {{}, {<<"0xee9e4392", "INVALID_COMPRESSED_DATA">>}}
          /\ (p.comp \in {"bad", "tooLong"} /\ ~dg[d].auth) => ~dropped

\* An authenticated packet whose payload does not decompress was dropped, and
\* a packet with such a payload from an unknown source was not decompressed.
C29_Witness ==
    /\ \E d \in DOMAIN dg :
          /\ dg[d].state = "done" /\ dg[d].auth /\ dg[d].pkt.comp = "tooLong"
          /\ dg[d].traces = {<<"0xee9e4392", "INVALID_COMPRESSED_DATA">>}
    /\ \E d \in DOMAIN dg :
          /\ dg[d].state = "done" /\ ~dg[d].auth /\ dg[d].pkt.comp = "bad"
          /\ dg[d].whois # "none"

C26_TwoPassLocking ==
    [][per' # per =>
         /\ per.pc = "collect" => UNCHANGED <<m_peers, peerObjs, store>>
         /\ per'.toDelete # per.toDelete =>
               \/ per.pc = "collect" /\ per.toDelete = <<>>
               \/ per.pc \in {"erase", "save"} /\ per'.toDelete = Tail(per.toDelete)
               \/ per.pc = "done" /\ per'.toDelete = <<>>
         /\ m_peers' # m_peers =>
               /\ per.pc = "erase" /\ store' = store
               /\ m_peers' = [m_peers EXCEPT ![Head(per.toDelete)] = NULL]
               /\ per'.toDelete = per.toDelete
               /\ per'.toSave = m_peers[Head(per.toDelete)]
         /\ store' # store =>
               /\ per.pc = "save" /\ m_peers' = m_peers
               /\ \A a \in Addr : m_peers[a] # per.toSave
               /\ \E a \in Addr : store' = [store EXCEPT ![a] = store'[a]]]_vars

\* One peer has been erased and saved, and the next candidate, erased from
\* the map in its own section, is about to be saved.
C26_Witness ==
    /\ Len(per.saves) >= 1 /\ per.pc = "save"
    /\ store[per.saves[1]] # NoData
    /\ \A a \in Addr : m_peers[a] # per.toSave

(***************************************************************************)
(* Properties of the reassembly of fragmented packets.                     *)
(***************************************************************************)
\* The numbers of the pieces delivered so far, in their order of arrival.
Arrived == [i \in DOMAIN m_inputPacketAssembler.log |-> m_inputPacketAssembler.log[i].no]
Outcomes == [i \in DOMAIN m_inputPacketAssembler.log |-> m_inputPacketAssembler.log[i].res]

\* C23: when the n pieces of a packet arrive in any order, each once and
\* within the assembly timeout, the assemble call for the last missing piece
\* returns COMPLETE and every other call OK; the slices handed back are the
\* packet's slices in ascending fragment order, and the packet goes on to
\* authentication once, and only when it is complete.
C23_AnyOrderCompletesOnce ==
    LET A == m_inputPacketAssembler
    IN (/\ ~A.expired
        /\ \A i, j \in DOMAIN A.log : Arrived[i] = Arrived[j] => i = j) =>
          /\ \A i \in DOMAIN A.log : Outcomes[i] = IF i = A.n THEN "COMPLETE" ELSE "OK"
          /\ Len(A.log) < A.n => A.out = <<>> /\ dg = <<>>
          /\ Len(A.log) = A.n =>
                /\ A.out = <<Original(A.n)>>
                /\ Len(dg) = 1 /\ dg[1].pkt = FragPkt
                /\ dg[1].state = "done" => dg[1].auth /\ dg[1].handlers = <<"FRAME">>

\* The three pieces arrived last piece first, head second, and the packet
\* was authenticated and handled.
C23_Witness ==
    /\ m_inputPacketAssembler.n = 3
    /\ Arrived = <<2, 0, 1>>
    /\ ~m_inputPacketAssembler.expired
    /\ Len(dg) = 1 /\ dg[1].state = "done" /\ dg[1].auth

C33_EncryptedHelloProcessed ==
    \A d \in DOMAIN dg :
       LET p == dg[d].pkt
       IN (/\ dg[d].state = "done" /\ WellFormed(p)
           /\ p.verb = "HELLO" /\ CipherOf(p) = "POLY1305_SALSA2012"
           /\ dg[d].auth /\ dg[d].fresh
           /\ Decompressed(p) /\ p.body = "ok"
           /\ p.id = OwnerId(p.src) /\ p.hmac = p.id.key /\ p.mac = p.id.key) =>
              /\ dg[d].handlers = <<"HELLO">>
              /\ dg[d].helloOk
              /\ dg[d].replied = 1
              /\ dg[d].received = 1

\* C35: a packet records its ID in a peer's ring of packet IDs only if it
\* passed authentication: the packet MAC for a packet of the cipher switch,
\* the HMAC or Poly1305 check of m_HELLO for a HELLO.
C35_RingOnlyByAuthenticated ==
    \A d \in DOMAIN dg :
       (dg[d].state = "done" /\ dg[d].fresh) => (dg[d].auth \/ dg[d].helloOk)

\* C36: a packet that was reported dropped through incomingPacketDropped is
\* not followed by peer.received.
C36_DroppedNeverRefreshes ==
    \A d \in DOMAIN dg :
       (dg[d].state = "done" /\ dg[d].traces # {}) => dg[d].received = 0


(***************************************************************************)
(* doPeriodicTasks against a peer that is heard from during the call.      *)
(***************************************************************************)
\* C39: doPeriodicTasks erases a peer from the peer map only if, at the
\* moment of the erasure, the peer's lastReceive is still older than
\* ZT_PEER_ALIVE_TIMEOUT by the time of the call.
C39_ErasedOnlyIfStillStale ==
    [][\A a \in Addr :
         (per.pc = "erase" /\ m_peers[a] # NULL /\ m_peers'[a] = NULL) =>
            IsStale(peerObjs[m_peers[a]], per.ticks)]_vars


(***************************************************************************)
(* VL1 on HELLOs: valid and forged, of protocol 11 and of an older one,    *)
(* with bad fields, encrypted, on two paths, and of a second peer.         *)
(***************************************************************************)
HelloSeq ==
    << Hello(1, 3, "POLY1305_NONE", OwnerId(1), 11, 1),
       Hello(1, 3, "POLY1305_NONE", OwnerId(1), 11, 0),
       Hello(1, 4, "POLY1305_NONE", OwnerId(1), 10, 1),
       Hello(1, 4, "POLY1305_NONE", OwnerId(1), 10, 0),
       [Hello(1, 5, "POLY1305_NONE", OwnerId(1), 11, 1) EXCEPT !.body = "badSentTo"],
       [Hello(1, 5, "POLY1305_NONE", OwnerId(1), 11, 1) EXCEPT !.body = "badDict"],
       [Hello(1, 4, "POLY1305_NONE", OwnerId(1), 10, 1) EXCEPT !.body = "badDict"],
       Hello(1, 6, "POLY1305_SALSA2012", OwnerId(1), 11, 1),
       [Hello(1, 3, "POLY1305_NONE", OwnerId(1), 11, 1) EXCEPT !.from = 2],
       Hello(2, 3, "POLY1305_NONE", OwnerId(2), 12, 2),
       Pkt(2, 1, "POLY1305_SALSA2012", "FRAME", 2),
       Pkt(1, 7, "POLY1305_SALSA2012", "FRAME", 1) >>

HelloScenarios ==
    {s \in UNION {[1..n -> 1..Len(HelloSeq)] : n \in 0..MaxPackets} :
        \A i \in 1..(Len(s) - 1) : s[i] <= s[i + 1]}

InitHello ==
    /\ now = ZT_WHOIS_RETRY_DELAY
    /\ store \in InitStores
    /\ th = [t \in Threads |-> IdleThread]
    /\ per = IdlePer
    /\ tsc = IdleTsc
    /\ calls = [per |-> 0, tsc |-> 0]
    /\ gcSnap = <<>>
    /\ whoisQueue = [a \in Addr |-> NoItem]
    /\ expect = {}
    /\ sent = {}
    /\ m_inputPacketAssembler = IdleAssembler
    /\ locks = IdleLocks
    /\ IdlePaths
    /\ m_peers = [a \in Addr |-> IF a = RootAddr THEN 1 ELSE NULL]
    /\ peerObjs = [o \in ObjId |-> IF o = 1 THEN NewPeer(OwnerId(RootAddr)) ELSE DeadPeer]
    /\ m_roots = <<1>>
    /\ m_bestRoot = 1
    /\ \E s \in HelloScenarios : dg = [i \in 1..Len(s) |-> NewDg(HelloSeq[s[i]])]

SpecHello == InitHello /\ [][Next]_vars

\* C31: m_HELLO sends an OK(HELLO) and sets the peer's remote version to the
\* HELLO's (proto, major, minor, revision) exactly when the HELLO passed the
\* authentication and the parsing of its fields; the reply is one packet, to
\* the peer, on the path the HELLO arrived on, under a packet ID not used
\* before, and its payload echoes the HELLO's packet ID and timestamp.
C31_ReplyIffHelloValid ==
    [][\A t \in Threads :
         LET d == th[t].d
             p == dg[d].pkt
             peer == th[t].hpeer
             replies == {s \in sent' \ sent : s.verb = "OK"}
             authentic == (IF p.proto >= 11 THEN p.hmac ELSE p.mac) = peerObjs[peer].id.key
             parsed == p.body # "badSentTo" /\ (p.proto >= 11 => p.body # "badDict")
         IN (th[t].pc \in {"hello", "helloDedup", "helloAdd", "helloAuth"} /\ th'[t] # th[t]) =>
              IF th[t].pc = "helloAuth" /\ authentic /\ parsed
              THEN /\ Cardinality(replies) = 1
                   /\ \A r \in replies :
                         /\ r.to = p.id.addr /\ r.path = p.from /\ r.cause = d
                         /\ r.pid \notin {s.pid : s \in sent}
                         /\ \A u \in Threads : r.pid # th[u].pid
                         /\ r.payload[1] = VERB_HELLO
                         /\ SubSeq(r.payload, 2, 9) = U64(p.pid)
                         /\ SubSeq(r.payload, 10, 17) = U64(p.ts)
                   /\ peerObjs'[peer].vProto = p.proto
                   /\ peerObjs'[peer].vVersion = p.ver
                   /\ dg'[d].replied = 1
              ELSE /\ replies = {}
                   /\ dg'[d].replied = 0
                   /\ \A o \in ObjId :
                         (peerObjs[o].id # NoId /\ peerObjs'[o].id # NoId) =>
                            /\ peerObjs'[o].vProto = peerObjs[o].vProto
                            /\ peerObjs'[o].vVersion = peerObjs[o].vVersion]_vars

\* A valid HELLO has been answered: its OK(HELLO) is on its way and the
\* peer's remote version is the HELLO's.
C31_Witness ==
    \E d \in DOMAIN dg : \E r \in sent :
       /\ dg[d].state = "done" /\ dg[d].pkt.verb = "HELLO" /\ dg[d].replied = 1
       /\ r.verb = "OK" /\ r.cause = d /\ r.path = 2
       /\ m_peers[dg[d].pkt.src] # NULL
       /\ peerObjs[m_peers[dg[d].pkt.src]].vProto = dg[d].pkt.proto
       /\ peerObjs[m_peers[dg[d].pkt.src]].vVersion = dg[d].pkt.ver

\* C37: the payload of an OK(HELLO) as m_HELLO writes it, read by m_OK, gives
\* in_re_verb = HELLO and in_re_packet_id = the packet ID of the HELLO.
C37_OkReadAsWritten ==
    \A s \in sent :
       s.verb = "OK" =>
          /\ ~ParseOk(s.payload).overflow
          /\ ParseOk(s.payload).inReVerb = VERB_HELLO
          /\ ParseOk(s.payload).inRePacketId = U64(s.inRe)

\* C38: every packet handed to peer.send carries an authenticator under the
\* destination peer's key: an armor MAC or a trailing HMAC-SHA-384.
C38_EverySentPacketAuthenticated ==
    \A s \in sent : s.auth # {}


(***************************************************************************)
(* The WHOIS queue as a ring: packets of unknown sources 2 and 3, of       *)
(* different sizes, more than a ring holds, taken by concurrent calls.     *)
(***************************************************************************)
RingSeq ==
    << [Pkt(2, 1, "POLY1305_SALSA2012", "FRAME", 2) EXCEPT !.size = 30],
       [Pkt(2, 2, "POLY1305_SALSA2012", "FRAME", 2) EXCEPT !.size = 50],
       [Pkt(2, 3, "NONE", "FRAME", 2) EXCEPT !.size = 70],
       [Pkt(3, 1, "POLY1305_SALSA2012", "FRAME", 3) EXCEPT !.size = 90] >>

RingScenarios ==
    {s \in UNION {[1..n -> 1..Len(RingSeq)] : n \in 0..MaxWhoisPackets} :
        \A i \in 1..(Len(s) - 1) : s[i] <= s[i + 1]}

InitRing ==
    /\ InitQueue
    /\ \E s \in RingScenarios : dg = [i \in 1..Len(s) |-> NewDg(RingSeq[s[i]])]

NextRing ==
    \E t \in Threads :
       \/ \E d \in 1..MaxWhoisPackets : Receive(t, d)
       \/ Whois(t)
       \/ \E pathOk \in BOOLEAN : SendWhois(t, pathOk)
       \/ WhoisOut(t)

SpecRing == InitRing /\ [][NextRing]_vars

\* C32: the queue item of a source is a ring of
\* ZT_VL1_MAX_WHOIS_WAITING_PACKETS slots.  After k packets of the source
\* were enqueued it holds the min(k, MAX) last enqueued of them, each with
\* its own size, each in the slot its number in the order of enqueueing
\* gives it: a packet has overwritten only the oldest one.
C32_WhoisRingHoldsLatest ==
    \A a \in Addr :
       LET wq == whoisQueue[a]
           k == wq.count
           MAX == ZT_VL1_MAX_WHOIS_WAITING_PACKETS
           Q == {d \in DOMAIN dg : dg[d].pkt.src = a /\ dg[d].queuedAs > 0}
           held == {i \in DOMAIN wq.waiting : wq.waiting[i] # 0}
       IN /\ {dg[d].queuedAs : d \in Q} = 1..k
          /\ Cardinality(Q) = k
          /\ Cardinality(held) = IF k < MAX THEN k ELSE MAX
          /\ {wq.waiting[i] : i \in held} = {d \in Q : dg[d].queuedAs > k - MAX}
          /\ \A i \in held :
                /\ (dg[wq.waiting[i]].queuedAs - 1) % MAX = i
                /\ wq.waitingSize[i] = dg[wq.waiting[i]].pkt.size
          /\ \A i \in DOMAIN wq.waiting : i \notin held => wq.waitingSize[i] = 0

\* Three packets of different sizes from the unknown source 2 were enqueued:
\* the third has taken the slot of the first.
C32_Witness ==
    /\ whoisQueue[2].count = 3
    /\ \E d \in DOMAIN dg :
          /\ dg[d].queuedAs = 3 /\ whoisQueue[2].waiting[0] = d
          /\ whoisQueue[2].waitingSize[0] = dg[d].pkt.size
    /\ whoisQueue[2].waitingSize[0] # whoisQueue[2].waitingSize[1]


(***************************************************************************)
(* VL1 under any trace flags: the datagrams of DatagramSeq, each handled   *)
(* by a call that reads m_traceFlags with or without ZT_TRACE_F_VL1.       *)
(***************************************************************************)
TraceFlags == {{}, {"ZT_TRACE_F_VL1"}, {"ZT_TRACE_F_VL2"}}

InitTrace ==
    /\ now = ZT_WHOIS_RETRY_DELAY
    /\ store \in InitStores
    /\ th = [t \in Threads |-> IdleThread]
    /\ per = IdlePer
    /\ tsc = IdleTsc
    /\ calls = [per |-> 0, tsc |-> 0]
    /\ gcSnap = <<>>
    /\ whoisQueue = [a \in Addr |-> NoItem]
    /\ expect = {}
    /\ sent = {}
    /\ m_inputPacketAssembler = IdleAssembler
    /\ locks = IdleLocks
    /\ IdlePaths
    /\ m_peers = [a \in Addr |-> IF a = RootAddr THEN 1 ELSE NULL]
    /\ peerObjs = [o \in ObjId |-> IF o = 1 THEN NewPeer(OwnerId(RootAddr)) ELSE DeadPeer]
    /\ m_roots = <<1>>
    /\ m_bestRoot = 1
    /\ \E s \in Scenarios : \E f \in [DOMAIN s -> TraceFlags] :
          dg = [i \in 1..Len(s) |-> [NewDg(DatagramSeq[s[i]]) EXCEPT !.tflags = f[i]]]

SpecTrace == InitTrace /\ [][Next]_vars

InitLocks == InitTopo /\ \A a \in Addr : store[a] = NoData

SpecLocks == InitLocks /\ [][NextLocks]_vars

\* The order in which locks are taken while others are held.
LockOrder == <<"m_paths_l", "m_peers_l", "m_roots_l", "l_bestRoot", "m_whoisQueue_l">>
LockRank(l) == CHOOSE i \in DOMAIN LockOrder : LockOrder[i] = l

\* p waits for a lock.
Waits(p) == Running(p) /\ NextOp(p).op \in {"lock", "rlock"} /\ ~CanTake(p)

\* p waits for a lock that q holds.
WaitsFor(p, q) == Waits(p) /\ NextOp(p).l \in Held(q)

\* C40: no interleaving of the calls deadlocks: there is no set of calls
\* each of which waits for a lock that a call of the set holds; a lock is
\* asked for only by a call that holds nothing of the same or a later
\* place in one order of the locks, so no holder asks for its lock again;
\* and m_whoisQueue_l is not held when Topology, Expect or a Peer is
\* called or a packet is sent.
C40_NoDeadlock ==
    /\ \A S \in SUBSET {p \in Procs : Waits(p)} \ {{}} : \E p \in S : \A q \in S : ~WaitsFor(p, q)
    /\ \A p \in Procs :
          /\ Running(p) =>
                /\ NextOp(p).op \in {"lock", "rlock"} =>
                      \A h \in Held(p) : LockRank(h) < LockRank(NextOp(p).l)
                /\ NextOp(p).op \in {"lock", "rlock", "call"} => "m_whoisQueue_l" \notin Held(p)
                /\ NextOp(p).op = "unlock" => NextOp(p).l \in Held(p)
          /\ ~Running(p) => Held(p) = {}

\* doPeriodicTasks holds the write lock of the peer map and an
\* onRemotePacket call waits for its read lock, trustStoreChanged holds the
\* root list and the best root, the other onRemotePacket call holds the
\* WHOIS queue with a WHOIS to send after it, and saveAll waits too.
C40_Witness ==
    /\ locks.w["m_peers_l"] = "doPeriodicTasks"
    /\ WaitsFor("rx1", "doPeriodicTasks")
    /\ WaitsFor("saveAll", "doPeriodicTasks")
    /\ Held("trustStoreChanged") = {"m_roots_l", "l_bestRoot"}
    /\ Held("rx2") = {"m_whoisQueue_l"}
    /\ Len(locks.prog["rx2"]) > 1

====
